---- MODULE Spec2Model ----
(***************************************************************************)
(* A model of rpbot's command dispatch (rpbot/plugin.py), of the prism     *)
(* roll engine and of the reroll session table (data/plugins/              *)
(* characters.py).                                                         *)
(*                                                                         *)
(* Python strings are sequences of one-character strings; indices into     *)
(* them (idx) keep Python's 0-based values, so string[idx] is written      *)
(* string[idx + 1].  A Python value that may be None, a str, an int or a   *)
(* list of str is a record [t, s, l, n] (see NoneV, StrV, IntV, ListV).    *)
(* A Python call that may raise is a record with a field exc, "none" when  *)
(* it returns normally and the exception's class name otherwise.           *)
(***************************************************************************)
EXTENDS Integers, Sequences, FiniteSets, TLC

VARIABLES
    roleplay,   \* Plugin.roleplay: NoRoleplay or [rooms, commands]
    enabled,    \* PluginCommand.enabled of every registered command
    rerolls,    \* CharactersPlugin.rerolls: message id -> session
    next_id,    \* id the next message sent by the bot will get
    tasks,      \* suspended process_react coroutines (asynchronous runs)
    started,    \* how often the continuation of each session was started
    roll,       \* the Roll under resolution (pure-function runs)
    result,     \* the RollResult of the last resolution (pure-function runs)
    folding,    \* the prisms a fold has yet to apply (pure-function runs)
    folded,     \* the prisms a fold has applied (pure-function runs)
    last        \* the last event delivered to the bot, and what it did

vars ==
    <<roleplay, enabled, rerolls, next_id, tasks, started, roll, result,
      folding, folded, last>>

----------------------------------------------------------------------------
(* Python values *)

NoneV == [t |-> "None", s |-> <<>>, l |-> <<>>, n |-> 0]
StrV(s) == [t |-> "str", s |-> s, l |-> <<>>, n |-> 0]
IntV(n) == [t |-> "int", s |-> <<>>, l |-> <<>>, n |-> n]
ListV(l) == [t |-> "list", s |-> <<>>, l |-> l, n |-> 0]

\* Python truthiness of a value: None, '', [] and 0 are falsy.
Truthy(v) ==
    CASE v.t = "None" -> FALSE
      [] v.t = "str" -> v.s # <<>>
      [] v.t = "list" -> v.l # <<>>
      [] v.t = "int" -> v.n # 0

----------------------------------------------------------------------------
(* str methods *)

\* str.lower() on one character (the capitals that occur in prism names)
LowerChar(c) ==
    CASE c = "A" -> "a" [] c = "B" -> "b" [] c = "F" -> "f"
      [] c = "M" -> "m" [] c = "O" -> "o" [] c = "W" -> "w"
      [] OTHER -> c

StrLower(s) == [i \in 1..Len(s) |-> LowerChar(s[i])]

StartsWith(s, p) == Len(p) <= Len(s) /\ SubSeq(s, 1, Len(p)) = p

RECURSIVE LStrip(_)
LStrip(s) == IF s # <<>> /\ Head(s) = " " THEN LStrip(Tail(s)) ELSE s

RECURSIVE RStrip(_)
RStrip(s) ==
    IF s # <<>> /\ s[Len(s)] = " " THEN RStrip(SubSeq(s, 1, Len(s) - 1)) ELSE s

\* str.strip()
Strip(s) == RStrip(LStrip(s))

\* Index (1-based) of the first occurrence of c in s, 0 when there is none.
RECURSIVE FindFrom(_, _, _)
FindFrom(s, c, i) ==
    IF i > Len(s) THEN 0 ELSE IF s[i] = c THEN i ELSE FindFrom(s, c, i + 1)

IsDigit(c) == c \in {"0", "1", "2", "3", "4", "5", "6", "7", "8", "9"}
DigitVal(c) ==
    CASE c = "0" -> 0 [] c = "1" -> 1 [] c = "2" -> 2 [] c = "3" -> 3
      [] c = "4" -> 4 [] c = "5" -> 5 [] c = "6" -> 6 [] c = "7" -> 7
      [] c = "8" -> 8 [] c = "9" -> 9

RECURSIVE NatOf(_, _)
NatOf(s, acc) ==
    IF s = <<>> THEN acc ELSE NatOf(Tail(s), acc * 10 + DigitVal(Head(s)))

\* int(text): surrounding whitespace is ignored, one sign is allowed, and
\* anything but a non-empty run of digits raises ValueError.
PyInt(text) ==
    LET s == Strip(text)
        signed == s # <<>> /\ Head(s) \in {"-", "+"}
        body == IF signed THEN Tail(s) ELSE s
    IN IF body # <<>> /\ \A i \in 1..Len(body) : IsDigit(body[i])
       THEN [exc |-> "none",
             val |-> IF signed /\ Head(s) = "-" THEN 0 - NatOf(body, 0)
                     ELSE NatOf(body, 0)]
       ELSE [exc |-> "ValueError", val |-> 0]

----------------------------------------------------------------------------
(* Texts the bot sends.  A text is the kind of message, the name (of a     *)
(* command, parameter or prism) it mentions, and the value it quotes.      *)

Text(kind, name, value) == [kind |-> kind, name |-> name, value |-> value]
NoText == Text("", <<>>, NoneV)

Return(val) == [exc |-> "none", val |-> val, text |-> NoText]
Raise(exc, text) == [exc |-> exc, val |-> NoneV, text |-> text]

----------------------------------------------------------------------------
(* rpbot/plugin.py: the tokenizer *)

RECURSIVE consume_whitespace(_, _)
consume_whitespace(string, idx) ==
    IF idx < Len(string) /\ string[idx + 1] = " "
    THEN consume_whitespace(string, idx + 1)
    ELSE idx

\* _consume_until, the loop with bit as collected so far
RECURSIVE consume_until(_, _, _, _)
consume_until(string, idx, char, bit) ==
    IF idx < Len(string) /\ string[idx + 1] # char
    THEN consume_until(string, idx + 1, char, Append(bit, string[idx + 1]))
    ELSE [bit |-> bit, idx |-> idx]

\* get_param_value returning a quoted token with its quotes
get_param_valueKeepsQuotes(string, idx) ==
    LET i1 == consume_whitespace(string, idx)
    IN IF i1 >= Len(string)
       THEN [exc |-> "IndexError", param |-> <<>>, idx |-> i1]
       ELSE IF string[i1 + 1] = "\""
       THEN LET r == consume_until(string, i1 + 1, "\"", <<>>)
                i2 == r.idx + 1
            IN IF i2 < Len(string) /\ string[i2 + 1] # " "
               THEN [exc |-> "CommandException", param |-> <<>>, idx |-> i2]
               ELSE [exc |-> "none",
                     param |-> <<"\"">> \o r.bit \o <<"\"">>, idx |-> i2]
       ELSE LET r == consume_until(string, i1, " ", <<>>)
            IN [exc |-> "none", param |-> r.bit, idx |-> r.idx]

\* get_param_value without the check of the character after the closing
\* quote
get_param_valueUnchecked(string, idx) ==
    LET i1 == consume_whitespace(string, idx)
    IN IF i1 >= Len(string)
       THEN [exc |-> "IndexError", param |-> <<>>, idx |-> i1]
       ELSE IF string[i1 + 1] = "\""
       THEN LET r == consume_until(string, i1 + 1, "\"", <<>>)
            IN [exc |-> "none", param |-> r.bit, idx |-> r.idx + 1]
       ELSE LET r == consume_until(string, i1, " ", <<>>)
            IN [exc |-> "none", param |-> r.bit, idx |-> r.idx]

get_param_value(string, idx) ==
    LET i1 == consume_whitespace(string, idx)
    IN IF i1 >= Len(string)
       THEN [exc |-> "IndexError", param |-> <<>>, idx |-> i1]
       ELSE IF string[i1 + 1] = "\""
       THEN LET r == consume_until(string, i1 + 1, "\"", <<>>)
                i2 == r.idx + 1
            IN IF i2 < Len(string) /\ string[i2 + 1] # " "
               THEN [exc |-> "CommandException", param |-> <<>>, idx |-> i2]
               ELSE [exc |-> "none", param |-> r.bit, idx |-> i2]
       ELSE LET r == consume_until(string, i1, " ", <<>>)
            IN [exc |-> "none", param |-> r.bit, idx |-> r.idx]

----------------------------------------------------------------------------
(* rpbot/plugin.py: PluginCommandParam *)

PluginCommandParam(name, optional, default, converter, collect) ==
    [name |-> name, optional |-> optional, default |-> default,
     converter |-> converter, collect |-> collect]

\* The converters the registered commands use: none, or Python's int.
Convert(converter, value) ==
    IF converter = "int"
    THEN IF value.t = "str"
         THEN LET r == PyInt(value.s)
              IN IF r.exc = "none" THEN Return(IntV(r.val))
                 ELSE Raise(r.exc, NoText)
         ELSE Raise("TypeError", NoText)
    ELSE Return(value)

\* process returning None, not the default, for an absent optional value
processWithoutDefault(param, value) ==
    IF ~Truthy(value)
    THEN IF param.optional
         THEN Return(NoneV)
         ELSE Raise("CommandException", Text("invalid_value", param.name, value))
    ELSE Convert(param.converter, value)

process(param, value) ==
    IF ~Truthy(value)
    THEN IF param.optional
         THEN Return(param.default)
         ELSE Raise("CommandException", Text("invalid_value", param.name, value))
    ELSE Convert(param.converter, value)

----------------------------------------------------------------------------
(* rpbot/plugin.py: PluginCommand *)

PREFIX == "!"

PluginCommand(name, handler, requires_player, requires_admin, requires_room, params) ==
    [name |-> name, handler |-> handler, requires_player |-> requires_player,
     requires_admin |-> requires_admin, requires_room |-> requires_room,
     params |-> params]

\* NotAuthorised with the player role accepted where an admin is required
NotAuthorisedPlayerPasses(spec, is_admin, is_player) ==
    \/ spec.requires_admin /\ ~(is_admin \/ is_player)
    \/ spec.requires_player /\ ~(is_player \/ is_admin)

\* NotAuthorised with an admin who is no player refused where a player is
\* required
NotAuthorisedAdminNoPlayer(spec, is_admin, is_player) ==
    \/ spec.requires_admin /\ ~is_admin
    \/ spec.requires_player /\ ~is_player

\* PluginCommand.run, lines 133-134: the caller may not use the command.
NotAuthorised(spec, is_admin, is_player) ==
    \/ spec.requires_admin /\ ~is_admin
    \/ spec.requires_player /\ ~(is_player \/ is_admin)

\* PluginCommand.run, lines 147-159, from the i-th parameter on (i as in
\* enumerate), with idx the position reached in params.
RECURSIVE TokenizeFrom(_, _, _, _, _)
TokenizeFrom(cmd_params, params, i, idx, param_values) ==
    IF i >= Len(cmd_params)
    THEN [exc |-> "none", param_values |-> param_values]
    ELSE IF idx < Len(params)
    THEN IF i = Len(cmd_params) - 1 /\ ~cmd_params[i + 1].collect
         THEN TokenizeFrom(cmd_params, params, i + 1, Len(params),
                  Append(param_values,
                         Strip(SubSeq(params, idx + 1, Len(params)))))
         ELSE LET r == get_param_value(params, idx)
              IN IF r.exc # "none"
                 THEN [exc |-> r.exc, param_values |-> param_values]
                 ELSE TokenizeFrom(cmd_params, params,
                          IF cmd_params[i + 1].collect THEN i ELSE i + 1,
                          r.idx, Append(param_values, Strip(r.param)))
    ELSE TokenizeFrom(cmd_params, params, i + 1, idx, param_values)

\* Tokenize reading the last declared parameter token by token like the
\* others: a collecting parameter is declared after it
TokenizeSplitsLast(cmd_params, params) ==
    IF params.t = "None"
    THEN [exc |-> "none", param_values |-> <<>>]
    ELSE TokenizeFrom(Append(cmd_params,
                             PluginCommandParam(<<>>, TRUE, NoneV, "", TRUE)),
                      params.s, 0, 0, <<>>)

Tokenize(cmd_params, params) ==
    IF params.t = "None"
    THEN [exc |-> "none", param_values |-> <<>>]
    ELSE TokenizeFrom(cmd_params, params.s, 0, 0, <<>>)

\* PluginCommand.run, lines 163-169: the value handed to the i-th parameter.
ParamValue(param, param_values, i) ==
    IF i < Len(param_values)
    THEN IF param.collect
         THEN ListV(SubSeq(param_values, i + 1, Len(param_values)))
         ELSE StrV(param_values[i + 1])
    ELSE NoneV

\* PluginCommand.run, lines 161-170.
RECURSIVE BindFrom(_, _, _, _)
BindFrom(cmd_params, param_values, i, processed_params) ==
    IF i >= Len(cmd_params)
    THEN [exc |-> "none", text |-> NoText, args |-> processed_params]
    ELSE LET r == process(cmd_params[i + 1],
                          ParamValue(cmd_params[i + 1], param_values, i))
         IN IF r.exc # "none"
            THEN [exc |-> r.exc, text |-> r.text, args |-> processed_params]
            ELSE BindFrom(cmd_params, param_values, i + 1,
                          Append(processed_params, r.val))

\* RunBind with the enabled flag checked before the caller's rights
RunBindEnabledFirst(spec, is_enabled, is_admin, is_player, params) ==
    IF ~is_enabled
    THEN [exc |-> "CommandException",
          text |-> Text("disabled", spec.name, NoneV), args |-> <<>>]
    ELSE IF NotAuthorised(spec, is_admin, is_player)
    THEN [exc |-> "CommandException",
          text |-> Text("not_authorised", spec.name, NoneV), args |-> <<>>]
    ELSE LET tok == Tokenize(spec.params, params)
         IN IF tok.exc # "none"
            THEN [exc |-> tok.exc,
                  text |-> IF tok.exc = "CommandException"
                           THEN Text("invalid_parameters", <<>>, params)
                           ELSE NoText,
                  args |-> <<>>]
            ELSE BindFrom(spec.params, tok.param_values, 0, <<>>)

\* RunBind without the test of the enabled flag
RunBindIgnoresEnabled(spec, is_enabled, is_admin, is_player, params) ==
    RunBindEnabledFirst(spec, TRUE, is_admin, is_player, params)

\* PluginCommand.run up to the call of the handler (lines 130-170): either
\* the exception raised, or the arguments the handler is called with.
RunBind(spec, is_enabled, is_admin, is_player, params) ==
    IF NotAuthorised(spec, is_admin, is_player)
    THEN [exc |-> "CommandException",
          text |-> Text("not_authorised", spec.name, NoneV), args |-> <<>>]
    ELSE IF ~is_enabled
    THEN [exc |-> "CommandException",
          text |-> Text("disabled", spec.name, NoneV), args |-> <<>>]
    ELSE LET tok == Tokenize(spec.params, params)
         IN IF tok.exc # "none"
            THEN [exc |-> tok.exc,
                  text |-> IF tok.exc = "CommandException"
                           THEN Text("invalid_parameters", <<>>, params)
                           ELSE NoText,
                  args |-> <<>>]
            ELSE BindFrom(spec.params, tok.param_values, 0, <<>>)

----------------------------------------------------------------------------
(* data/plugins/characters.py: prisms *)

\* Prism.__init__ for an object of class kind.  The subclasses' __init__
\* set their own attribute on top of it: num_dice of an AdderPrism, modifier
\* of a BonusPrism, ability of a MergerPrism, multiplier of a
\* MultiplierPrism, tier of an OutputPrism, param_type of a SpecialPrism,
\* weights of a WeighterPrism.
Prism(kind, name) ==
    [kind |-> kind, name |-> name, num_dice |-> 0, modifier |-> 0,
     ability |-> <<>>, multiplier |-> 0, tier |-> 0, param_type |-> "",
     weights |-> <<>>]

\* isinstance(prism, SpecialPrism): FakerPrism and WeighterPrism derive from it.
IsSpecialPrism(prism) == prism.kind \in {"special", "faker", "weighter"}
\* isinstance(prism, FakerPrism)
IsFakerPrism(prism) == prism.kind = "faker"

\* Roll.__init__
Roll(num_dice, modifier, rerolls_, weights) ==
    [num_dice |-> num_dice, modifier |-> modifier, rerolls |-> rerolls_,
     weights |-> weights]

NewRoll == Roll(0, 0, 0, <<>>)

\* What applying a prism did: the exception it raised (text its message,
\* if it has one) and the roll.
Applied(r) == [exc |-> "none", text |-> NoText, roll |-> r]
ApplyRaise(exc, r) == [exc |-> exc, text |-> NoText, roll |-> r]

\* character['abilities'][ability.lower()], added to the die count
AddAbility(character, r, ability) ==
    IF StrLower(ability) \in DOMAIN character.abilities
    THEN Applied([r EXCEPT !.num_dice =
                     @ + character.abilities[StrLower(ability)]])
    ELSE ApplyRaise("KeyError", r)

\* roll.num_dice += n, roll.modifier += n, roll.rerolls += n and
\* roll.num_dice = int(roll.num_dice * n), the product of two ints being its
\* own int()
Changed(r, attribute, n) ==
    CASE attribute = "num_dice +" -> [r EXCEPT !.num_dice = @ + n]
      [] attribute = "modifier +" -> [r EXCEPT !.modifier = @ + n]
      [] attribute = "rerolls +" -> [r EXCEPT !.rerolls = @ + n]
      [] attribute = "num_dice *" -> [r EXCEPT !.num_dice = @ * n]

\* The attribute changed by int(param), n being what int(param) gave: int
\* may have raised ValueError
WithInt(r, n, attribute) ==
    IF n.exc # "none" THEN ApplyRaise(n.exc, r)
    ELSE Applied(Changed(r, attribute, n.val))

AdderPrism_apply(prism, character, r, param) ==
    LET r1 == Changed(r, "num_dice +", prism.num_dice)
    IN IF param.t # "None" THEN WithInt(r1, PyInt(param.s), "num_dice +")
       ELSE Applied(r1)

AbilityPrism_apply(prism, character, r, param) ==
    AddAbility(character, r, IF param.t # "None" THEN param.s ELSE prism.name)

\* BonusPrism_apply adding the modifier to the die count as well
BonusPrism_applyToDice(prism, character, r, param) ==
    LET r1 == Changed(Changed(r, "modifier +", prism.modifier),
                      "num_dice +", prism.modifier)
    IN IF param.t # "None" THEN WithInt(r1, PyInt(param.s), "modifier +")
       ELSE Applied(r1)

BonusPrism_apply(prism, character, r, param) ==
    LET r1 == Changed(r, "modifier +", prism.modifier)
    IN IF param.t # "None" THEN WithInt(r1, PyInt(param.s), "modifier +")
       ELSE Applied(r1)

MergerPrism_apply(prism, character, r, param) ==
    AddAbility(character, r,
               IF param.t # "None" THEN param.s ELSE prism.ability)

\* MultiplierPrism_apply adding the multiplier to the die count
MultiplierPrism_applyAdds(prism, character, r, param) ==
    LET r1 == Changed(r, "num_dice +", prism.multiplier)
    IN IF param.t # "None" THEN WithInt(r1, PyInt(param.s), "num_dice +")
       ELSE Applied(r1)

MultiplierPrism_apply(prism, character, r, param) ==
    LET r1 == Changed(r, "num_dice *", prism.multiplier)
    IN IF param.t # "None" THEN WithInt(r1, PyInt(param.s), "num_dice *")
       ELSE Applied(r1)

OutputPrism_apply(prism, character, r, param) ==
    LET r1 == Changed(r, "rerolls +", prism.tier)
    IN IF param.t # "None" THEN WithInt(r1, PyInt(param.s), "rerolls +")
       ELSE Applied(r1)

\* SpecialPrism.apply, inherited unchanged by FakerPrism (param_type None)
SpecialPrism_apply(prism, character, r, param) ==
    IF param.t = "None" THEN Applied(r)
    ELSE CASE prism.param_type = "adder" ->
                  WithInt(r, PyInt(param.s), "num_dice +")
           [] prism.param_type = "bonus" ->
                  WithInt(r, PyInt(param.s), "modifier +")
           [] prism.param_type = "multiplier" ->
                  WithInt(r, PyInt(param.s), "num_dice *")
           [] prism.param_type = "merger" -> AddAbility(character, r, param.s)
           [] OTHER -> ApplyRaise("ValueError", r)

WeighterPrism_apply(prism, character, r, param) ==
    Applied([r EXCEPT !.weights = prism.weights])

\* prism.apply(character, roll, param), dispatched on the prism's class
apply(prism, character, r, param) ==
    CASE prism.kind = "adder" -> AdderPrism_apply(prism, character, r, param)
      [] prism.kind = "ability" -> AbilityPrism_apply(prism, character, r, param)
      [] prism.kind = "bonus" -> BonusPrism_apply(prism, character, r, param)
      [] prism.kind = "merger" -> MergerPrism_apply(prism, character, r, param)
      [] prism.kind = "multiplier" ->
             MultiplierPrism_apply(prism, character, r, param)
      [] prism.kind = "output" -> OutputPrism_apply(prism, character, r, param)
      [] prism.kind = "weighter" ->
             WeighterPrism_apply(prism, character, r, param)
      [] OTHER -> SpecialPrism_apply(prism, character, r, param)

----------------------------------------------------------------------------
(* data/plugins/characters.py: Roll.resolve and RollResult *)

RollResult(dice, modifier, rerolls_, weights) ==
    [dice |-> dice, modifier |-> modifier, rerolls |-> rerolls_,
     weights |-> weights]

RECURSIVE SumSeq(_)
SumSeq(q) == IF q = <<>> THEN 0 ELSE Head(q) + SumSeq(Tail(q))

dice_total(res) == SumSeq(res.dice)
total(res) == dice_total(res) + res.modifier

\* DiceOver with one die where the count is zero or less
DiceOverAtLeastOne(n, faces) == IF n <= 0 THEN [1..1 -> faces] ELSE [1..n -> faces]

\* All the ways n dice can fall when each shows a face of the set faces.
DiceOver(n, faces) == IF n <= 0 THEN {<<>>} ELSE [1..n -> faces]

\* WeightedFaces with the faces of weight 0 drawn as well
WeightedFacesAny(weights) == {f \in 1..6 : weights[f] >= 0}

\* RollResult._get_roll: the faces one draw can give.  random.choices never
\* draws a face of weight 0 and raises ValueError when no weight is positive.
WeightedFaces(weights) == {f \in 1..6 : weights[f] > 0}

\* Lines 913-914: num_dice * 6 < 1.2 * force_result, both sides times ten.
RECURSIVE MoreDice(_, _)
MoreDice(num_dice, force_result) ==
    IF num_dice * 6 * 10 < 12 * force_result
    THEN MoreDice(num_dice + 1, force_result)
    ELSE num_dice

\* FewerDice without the minimum of one die
RECURSIVE FewerDiceToZero(_, _)
FewerDiceToZero(num_dice, force_result) ==
    IF num_dice > 0 /\ num_dice * 1 * 10 > 8 * force_result
    THEN FewerDiceToZero(num_dice - 1, force_result)
    ELSE num_dice

\* Lines 918-919: num_dice * 1 > 0.8 * force_result, both sides times ten.
RECURSIVE FewerDice(_, _)
FewerDice(num_dice, force_result) ==
    IF num_dice > 1 /\ num_dice * 1 * 10 > 8 * force_result
    THEN FewerDice(num_dice - 1, force_result)
    ELSE num_dice

\* Nudge never raising a die
NudgeOnlyDown(rolls, force_result) ==
    IF SumSeq(rolls) > force_result
    THEN {[rolls EXCEPT ![idx] = @ - 1] :
             idx \in {idx \in 1..Len(rolls) : rolls[idx] > 1}}
    ELSE {}

\* One turn of the loop of lines 922-941: the rolls the random choice of a
\* die can lead to, none when the loop breaks.
Nudge(rolls, force_result) ==
    LET sum == SumSeq(rolls)
        can_be_lowered == {idx \in 1..Len(rolls) : rolls[idx] > 1}
        can_be_raised == {idx \in 1..Len(rolls) : rolls[idx] < 6}
    IN IF sum > force_result
       THEN {[rolls EXCEPT ![idx] = @ - 1] : idx \in can_be_lowered}
       ELSE IF sum < force_result
       THEN {[rolls EXCEPT ![idx] = @ + 1] : idx \in can_be_raised}
       ELSE {}

\* The rolls the loop can end with, started from any of the rolls of S.
RECURSIVE NudgeAll(_, _)
NudgeAll(S, force_result) ==
    LET moving == {rolls \in S : Nudge(rolls, force_result) # {}}
    IN IF moving = {} THEN S
       ELSE NudgeAll((S \ moving) \cup
                     UNION {Nudge(rolls, force_result) : rolls \in moving},
                     force_result)

\* Lines 907-943, force_result already truthy: the dice of the result.
ForcedRolls(r, force_result) ==
    LET target == force_result - r.modifier
        num_dice == FewerDice(MoreDice(r.num_dice, target), target)
    IN NudgeAll(DiceOver(num_dice, 1..6), target)

\* Roll.resolve(force_result): every result the random draws can give.
resolve(r, force_result) ==
    IF Truthy(force_result)
    THEN {[exc |-> "none",
           result |-> RollResult(rolls, r.modifier, r.rerolls, r.weights)] :
          rolls \in ForcedRolls(r, force_result.n)}
    ELSE IF r.num_dice > 0 /\ r.weights # <<>> /\ WeightedFaces(r.weights) = {}
    THEN {[exc |-> "ValueError",
           result |-> RollResult(<<>>, r.modifier, r.rerolls, r.weights)]}
    ELSE {[exc |-> "none",
           result |-> RollResult(dice, r.modifier, r.rerolls, r.weights)] :
          dice \in DiceOver(r.num_dice,
                            IF r.weights # <<>> THEN WeightedFaces(r.weights)
                            ELSE 1..6)}

----------------------------------------------------------------------------
(* The guild the bot serves: its members, channels and character sheets.   *)

Members == {"owner", "alice", "bob", "eve"}
GuildOwner == "owner"
\* Holders of the roles State.roles names: index 0 the GM role, 1 the player
\* role.
RoleHolders == <<{"bob"}, {"alice", "bob"}>>

\* State._check_role(member, role_idx); role_idx counts from 0
check_role(member, role_idx) == member \in RoleHolders[role_idx + 1]
\* State.is_admin
is_admin(member) == check_role(member, 0) \/ GuildOwner = member
\* State.is_player
is_player(member) == check_role(member, 1)

Channels == {"hall", "lobby"}

NoRoleplay == [active |-> FALSE, rooms |-> {}, commands |-> {}]

\* The prisms of the roleplay's plugin configuration, and two of the
\* STANDARD_PRISMS (the other five are ability prisms like Force).
PrismName ==
    [Force |-> <<"F", "o", "r", "c", "e">>,
     Basic |-> <<"B", "a", "s", "i", "c">>,
     Fk |-> <<"F", "k">>, Ad |-> <<"A", "d">>, Mu |-> <<"M", "u">>,
     Bo |-> <<"B", "o">>, Out |-> <<"O", "u", "t">>, W6 |-> <<"W", "6">>,
     O1 |-> <<"O", "1">>, Me |-> <<"M", "e">>, Sp |-> <<"S", "p">>]

STANDARD_PRISMS ==
    <<Prism("ability", PrismName.Force), Prism("output", PrismName.Basic)>>

\* CharactersPlugin.__init__, lines 94-113: self.prisms, the standard ones
\* and then those of the configuration, each built by its class: a
\* FakerPrism, an AdderPrism of 2 dice, a MultiplierPrism of 3, a BonusPrism
\* of -1, an OutputPrism of tier 2, a WeighterPrism that only rolls 6, an
\* OutputPrism of tier 1, a MergerPrism of the ability force and a
\* SpecialPrism whose parameter adds dice.
PluginPrisms ==
    STANDARD_PRISMS \o
    <<Prism("faker", PrismName.Fk),
      [Prism("adder", PrismName.Ad) EXCEPT !.num_dice = 2],
      [Prism("multiplier", PrismName.Mu) EXCEPT !.multiplier = 3],
      [Prism("bonus", PrismName.Bo) EXCEPT !.modifier = 0 - 1],
      [Prism("output", PrismName.Out) EXCEPT !.tier = 2],
      [Prism("weighter", PrismName.W6) EXCEPT
           !.weights = <<0, 0, 0, 0, 0, 1>>],
      [Prism("output", PrismName.O1) EXCEPT !.tier = 1],
      [Prism("merger", PrismName.Me) EXCEPT
           !.ability = <<"f", "o", "r", "c", "e">>],
      [Prism("special", PrismName.Sp) EXCEPT !.param_type = "adder"]>>

HasPrism(prism_name) ==
    \E i \in 1..Len(PluginPrisms) : PluginPrisms[i].name = prism_name
PrismNamed(prism_name) ==
    PluginPrisms[CHOOSE i \in 1..Len(PluginPrisms) :
                     PluginPrisms[i].name = prism_name]

Character(name, prisms, abilities) ==
    [name |-> name, prisms |-> prisms, abilities |-> abilities]

\* The active character of each member who selected one.
Characters ==
    [m \in {"alice", "bob"} |->
        IF m = "alice"
        THEN Character(<<"J", "a", "n", "e">>,
                       <<PrismName.Basic, PrismName.Force, PrismName.Fk,
                         PrismName.Ad, PrismName.Mu, PrismName.Bo,
                         PrismName.Out, PrismName.W6, PrismName.O1,
                         PrismName.Me, PrismName.Sp>>,
                       (<<"f", "o", "r", "c", "e">> :> 1))
        ELSE Character(<<"R", "e", "x">>,
                       <<PrismName.Basic, PrismName.Force, PrismName.Ad,
                         PrismName.Out>>,
                       (<<"f", "o", "r", "c", "e">> :> 3))]

\* CharactersPlugin._get_active_character
get_active_character(member) ==
    IF member \in DOMAIN Characters
    THEN [exc |-> "none", text |-> NoText, character |-> Characters[member]]
    ELSE [exc |-> "CommandException",
          text |-> Text("no_active_character", <<>>, NoneV),
          character |-> Character(<<>>, <<>>, <<>>)]

\* CharactersPlugin._get_all_prisms
RECURSIVE AppendMissing(_, _)
AppendMissing(all_prisms, names) ==
    IF names = <<>> THEN all_prisms
    ELSE AppendMissing(
             IF \E i \in 1..Len(all_prisms) : all_prisms[i] = Head(names)
             THEN all_prisms ELSE Append(all_prisms, Head(names)),
             Tail(names))

get_all_prisms(character) ==
    AppendMissing(character.prisms,
                  [i \in 1..Len(STANDARD_PRISMS) |-> STANDARD_PRISMS[i].name])

\* CharactersPlugin._find_prism, the loop from the i-th name on
RECURSIVE find_prism_from(_, _, _)
find_prism_from(all_prisms, query, i) ==
    IF i > Len(all_prisms)
    THEN [exc |-> "CommandException",
          text |-> Text("does_not_own_prism", <<>>, StrV(query)),
          prism |-> Prism("faker", <<>>)]
    ELSE IF StartsWith(StrLower(all_prisms[i]), StrLower(query))
    THEN IF ~HasPrism(all_prisms[i])
         THEN [exc |-> "CommandException",
               text |-> Text("unknown_prism", all_prisms[i], NoneV),
               prism |-> Prism("faker", <<>>)]
         ELSE [exc |-> "none", text |-> NoText,
               prism |-> PrismNamed(all_prisms[i])]
    ELSE find_prism_from(all_prisms, query, i + 1)

\* CharactersPlugin._find_prism
find_prism(character, query) ==
    find_prism_from(get_all_prisms(character), query, 1)

\* PRISM_ROLL_REGEX = ^(.*?)(?:\[(.*)])?$ matched against prism_cmd: group 1
\* is the text before the first "[" and group 2 the text between it and a
\* closing "]" at the very end; without both, group 1 is the whole text and
\* group 2 is None.
PRISM_ROLL_REGEX(prism_cmd) ==
    LET open == FindFrom(prism_cmd, "[", 1)
    IN IF open > 0 /\ prism_cmd[Len(prism_cmd)] = "]"
       THEN [query |-> SubSeq(prism_cmd, 1, open - 1),
             param |-> StrV(SubSeq(prism_cmd, open + 1, Len(prism_cmd) - 1))]
       ELSE [query |-> prism_cmd, param |-> NoneV]

\* CharactersPlugin._roll_prisms, lines 784-788: prism.apply, f being what
\* _find_prism gave
ApplyFound(character, r, prism_param, f) ==
    IF f.exc # "none"
    THEN [exc |-> f.exc, text |-> f.text, roll |-> r]
    ELSE apply(f.prism, character, r,
               IF IsSpecialPrism(f.prism) THEN prism_param ELSE NoneV)

\* CharactersPlugin._roll_prisms, lines 777-786: one turn of the loop
RollPrism(character, r, prism_cmd) ==
    ApplyFound(character, r, PRISM_ROLL_REGEX(prism_cmd).param,
               find_prism(character, Strip(PRISM_ROLL_REGEX(prism_cmd).query)))

\* CharactersPlugin._roll_prisms, lines 776-788, from the i-th prism on;
\* FoldNext goes on after the turn that gave step.
RECURSIVE FoldPrisms(_, _, _, _)
RECURSIVE FoldNext(_, _, _, _)
FoldNext(character, prisms, i, step) ==
    IF step.exc # "none" THEN step
    ELSE FoldPrisms(character, prisms, i + 1, step.roll)

FoldPrisms(character, prisms, i, r) ==
    IF i > Len(prisms)
    THEN [exc |-> "none", text |-> NoText, roll |-> r]
    ELSE FoldNext(character, prisms, i, RollPrism(character, r, prisms[i]))

----------------------------------------------------------------------------
(* data/plugins/characters.py: the roll handlers.  What a handler did is   *)
(* a record: the exception it raised (text its message), the texts it      *)
(* sent to the channel, and, when it rendered a roll, the result and the   *)
(* arguments its reroll continuation captures.                             *)

NoResult == RollResult(<<>>, 0, 0, <<>>)
NoCall == [character |-> Character(<<>>, <<>>, <<>>), prisms |-> NoneV,
           force_result |-> NoneV]

Handled(exc, text, output, rendered, res, call) ==
    [exc |-> exc, text |-> text, output |-> output, rendered |-> rendered,
     result |-> res, call |-> call]

HandlerRaised(exc, text) == Handled(exc, text, <<>>, FALSE, NoResult, NoCall)
HandlerSent(output) == Handled("none", NoText, output, FALSE, NoResult, NoCall)

\* CharactersPlugin._roll_prisms up to and including channel.send (lines
\* 769-804); registering the session (lines 805-819) is left to the caller,
\* which knows the id of the message sent.
\* Lines 789-804, f being what the loop gave: the roll is resolved and the
\* result sent.
ResolveFolded(character, prisms, force_result, rerolls_left, f) ==
    IF f.exc # "none"
    THEN {HandlerRaised(f.exc, f.text)}
    ELSE {IF o.exc # "none"
          THEN HandlerRaised(o.exc, NoText)
          ELSE Handled("none", NoText,
                   <<Text("rolled", character.name, NoneV)>>, TRUE,
                   IF rerolls_left.t # "None"
                   THEN [o.result EXCEPT !.rerolls = rerolls_left.n]
                   ELSE o.result,
                   [character |-> character, prisms |-> prisms,
                    force_result |-> force_result]) :
          o \in resolve(f.roll, force_result)}

roll_prisms(character, prisms, force_result, rerolls_left) ==
    IF ~Truthy(prisms)
    THEN {HandlerSent(<<Text("owned_prisms", character.name, NoneV)>>)}
    ELSE ResolveFolded(character, prisms, force_result, rerolls_left,
                       FoldPrisms(character, prisms.l, 1, NewRoll))

\* CharactersPlugin.prism
prism(author, args) ==
    LET c == get_active_character(author)
    IN IF c.exc # "none" THEN {HandlerRaised(c.exc, c.text)}
       ELSE roll_prisms(c.character, args[1], NoneV, NoneV)

\* CharactersPlugin.prism_fake, lines 597-600, from the i-th prism on;
\* HasFakerNext goes on after _find_prism gave f.
RECURSIVE HasFaker(_, _, _, _)
RECURSIVE HasFakerNext(_, _, _, _, _)
HasFakerNext(character, prisms, i, has_faker, f) ==
    IF f.exc # "none"
    THEN [exc |-> f.exc, text |-> f.text, has_faker |-> has_faker]
    ELSE HasFaker(character, prisms, i + 1,
                  has_faker \/ IsFakerPrism(f.prism))

HasFaker(character, prisms, i, has_faker) ==
    IF i > Len(prisms)
    THEN [exc |-> "none", text |-> NoText, has_faker |-> has_faker]
    ELSE HasFakerNext(character, prisms, i, has_faker,
                      find_prism(character, Strip(prisms[i])))

\* CharactersPlugin.prism_fake, lines 601-606, h being what the loop gave
RollIfFaker(character, args, h) ==
    IF h.exc # "none" THEN {HandlerRaised(h.exc, h.text)}
    ELSE IF ~h.has_faker
    THEN {HandlerSent(<<Text("no_valid_prism", <<>>, NoneV)>>)}
    ELSE roll_prisms(character, args[2], args[1], NoneV)

\* prism_fake without the has_faker check
prism_fakeUnchecked(author, args) ==
    LET c == get_active_character(author)
    IN IF c.exc # "none" THEN {HandlerRaised(c.exc, c.text)}
       ELSE roll_prisms(c.character, args[2], args[1], NoneV)

\* CharactersPlugin.prism_fake
prism_fake(author, args) ==
    LET c == get_active_character(author)
    IN IF c.exc # "none" THEN {HandlerRaised(c.exc, c.text)}
       ELSE RollIfFaker(c.character, args,
                IF Truthy(args[2])
                THEN HasFaker(c.character, args[2].l, 1, FALSE)
                ELSE [exc |-> "none", text |-> NoText, has_faker |-> FALSE])

\* Every other handler works on the guild's configuration, which is not
\* modelled: it returns after sending its answer, raises a CommandException
\* (a domain error) or fails unexpectedly.
OtherHandler(handler) ==
    {HandlerSent(<<Text("answer", <<>>, NoneV)>>),
     HandlerRaised("CommandException", Text("domain_error", <<>>, NoneV)),
     HandlerRaised("Exception", NoText)}

\* await self.handler(message, *processed_params)
CallHandler(handler, author, args) ==
    CASE handler = "prism" -> prism(author, args)
      [] handler = "prism_fake" -> prism_fake(author, args)
      [] OTHER -> OtherHandler(handler)

----------------------------------------------------------------------------
(* The commands the plugins register *)

START_CMD == <<"s", "t", "a", "r", "t">>
FATE_CMD == <<"f", "a", "t", "e">>
LOCK_CMD == <<"l", "o", "c", "k">>
REVEAL_CMD == <<"r", "e", "v", "e", "a", "l">>
RELOAD_CMD == <<"r", "e", "l", "o", "a", "d">>
CHARACTERS_CREATE_CMD == <<"c", "h", "a", "r", "c", "r", "e", "a", "t", "e">>
ACTION_POINTS_CMD == <<"a", "p">>
PICKUP_CMD == <<"p", "i", "c", "k", "u", "p">>
PRISM_CMD == <<"p", "r", "i", "s", "m">>
PRISM_ADD_CMD == <<"p", "r", "i", "s", "m", "a", "d", "d">>
PRISM_FAKE_CMD == <<"p", "r", "i", "s", "m", "f", "a", "k", "e">>
REFRESH_CMD == <<"r", "e", "f", "r", "e", "s", "h">>
STATUS_CMD == <<"s", "t", "a", "t", "u", "s">>

Required(name) == PluginCommandParam(name, FALSE, NoneV, "", FALSE)

\* Plugin.register_command for each command of a list: self.commands
Registered(cmds) ==
    [name \in {cmds[i].name : i \in 1..Len(cmds)} |->
        cmds[CHOOSE i \in 1..Len(cmds) : cmds[i].name = name]]

\* BasePlugin.__init__ (five of its commands: one of each flag pattern, and
\* reload)
BasePluginCommands == Registered(<<
    PluginCommand(START_CMD, "start_game", FALSE, TRUE, FALSE,
        <<Required(<<"r", "o", "l", "e", "p", "l", "a", "y">>), Required(<<"p", "l", "a", "y", "e", "r", "s">>)>>),
    PluginCommand(FATE_CMD, "roll_dice_fate", FALSE, FALSE, FALSE,
        <<PluginCommandParam(<<"d", "i", "c", "e">>, TRUE, IntV(1), "int", FALSE)>>),
    PluginCommand(LOCK_CMD, "lock", FALSE, FALSE, TRUE,
        <<Required(<<"l", "o", "c", "a", "t", "i", "o", "n">>)>>),
    PluginCommand(REVEAL_CMD, "reveal", FALSE, TRUE, TRUE,
        <<Required(<<"l", "o", "c", "a", "t", "i", "o", "n">>)>>),
    PluginCommand(RELOAD_CMD, "reload", FALSE, TRUE, FALSE, <<>>) >>)

\* CharactersPlugin.__init__ (eight of its commands)
CharactersPluginCommands == Registered(<<
    PluginCommand(CHARACTERS_CREATE_CMD, "character_create", TRUE, FALSE,
        FALSE, <<Required(<<"n", "a", "m", "e">>)>>),
    PluginCommand(ACTION_POINTS_CMD, "action_points", TRUE, FALSE, FALSE,
        <<PluginCommandParam(<<"p", "o", "i", "n", "t", "s">>, TRUE, IntV(0), "int", FALSE)>>),
    PluginCommand(PICKUP_CMD, "pickup", TRUE, FALSE, FALSE,
        <<Required(<<"i", "t", "e", "m">>)>>),
    PluginCommand(PRISM_CMD, "prism", TRUE, FALSE, FALSE,
        <<PluginCommandParam(<<"p", "r", "i", "s", "m", "s">>, TRUE, NoneV, "", TRUE)>>),
    PluginCommand(PRISM_ADD_CMD, "prism_add", FALSE, TRUE, FALSE,
        <<Required(<<"p", "r", "i", "s", "m">>), Required(<<"c", "h", "a", "r", "a", "c", "t", "e", "r">>),
          PluginCommandParam(<<"u", "s", "e", "r">>, TRUE, NoneV, "", FALSE)>>),
    PluginCommand(PRISM_FAKE_CMD, "prism_fake", FALSE, FALSE, FALSE,
        <<PluginCommandParam(<<"r", "e", "s", "u", "l", "t">>, FALSE, NoneV, "int", FALSE),
          PluginCommandParam(<<"p", "r", "i", "s", "m", "s">>, TRUE, NoneV, "", TRUE)>>),
    PluginCommand(REFRESH_CMD, "refresh", FALSE, TRUE, FALSE,
        <<PluginCommandParam(<<"p", "o", "i", "n", "t", "s">>, FALSE, NoneV, "int", FALSE)>>),
    PluginCommand(STATUS_CMD, "status", TRUE, FALSE, TRUE, <<>>) >>)

AllCommands == DOMAIN BasePluginCommands \cup DOMAIN CharactersPluginCommands

\* The enabled flags the constructors leave: BasePlugin.__init__ lines
\* 215-220, CharactersPlugin.__init__ lines 293-295, and the default False of
\* PluginCommand.__init__.
\* EnabledAfterInit leaving every command enabled for an active roleplay
EnabledAfterInitAll(rp) ==
    [name \in AllCommands |->
        IF rp.active THEN name # START_CMD ELSE name = START_CMD]

EnabledAfterInit(rp) ==
    [name \in AllCommands |->
        IF name \in DOMAIN BasePluginCommands
        THEN IF rp.active
             THEN name # START_CMD /\ name \in rp.commands
             ELSE name = START_CMD
        ELSE rp.active /\ name \in rp.commands]

----------------------------------------------------------------------------
(* rpbot/plugin.py: Plugin.check_for_command.  What dispatch did with a    *)
(* message is a record; Ignored is what it is when the plugin returns      *)
(* False.                                                                  *)

FAILURE_REACTION == "no_entry_sign"
REROLL_REACTION == "arrows_counterclockwise"

Ignored ==
    [handled |-> FALSE, command |-> <<>>, gated |-> FALSE, exc |-> "none",
     error_text |-> NoText, reactions |-> {}, logged |-> "none",
     escaped |-> FALSE, handler |-> "", args |-> <<>>, output |-> <<>>,
     rendered |-> FALSE, result |-> NoResult, call |-> NoCall,
     deleted |-> FALSE]

\* m[1:].split(' ', 1), lines 51-56
SplitCommand(m) ==
    LET rest == Tail(m)
        sp == FindFrom(rest, " ", 1)
    IN IF sp = 0
       THEN [command |-> rest, params |-> NoneV]
       ELSE [command |-> SubSeq(rest, 1, sp - 1),
             params |-> StrV(SubSeq(rest, sp + 1, Len(rest)))]

\* RoomGated letting every channel pass while no roleplay is active
RoomGatedWhenActive(spec, channel) ==
    spec.requires_room /\ roleplay.active /\ channel \notin roleplay.rooms

\* Lines 62-65: the command asks for a room and the channel is none.
RoomGated(spec, channel) ==
    spec.requires_room /\ (~roleplay.active \/ channel \notin roleplay.rooms)

\* The handlers of CharactersPlugin are wrapped in delete_message, which
\* deletes the triggering message once the handler has returned.
DeletesMessage(spec) == spec.name \in DOMAIN CharactersPluginCommands

\* PluginCommand.run, line 171, b being what RunBind gave: the handler is
\* called unless an exception was raised before.
RunHandler(spec, author, b) ==
    IF b.exc # "none"
    THEN {[Ignored EXCEPT !.exc = b.exc, !.error_text = b.text]}
    ELSE {[Ignored EXCEPT !.exc = h.exc, !.error_text = h.text,
               !.handler = spec.handler, !.args = b.args,
               !.output = h.output, !.rendered = h.rendered,
               !.result = h.result, !.call = h.call,
               !.deleted = (h.exc = "none" /\ DeletesMessage(spec))] :
          h \in CallHandler(spec.handler, author, b.args)}

\* PluginCommand.run: RunBind, then the handler.
run(spec, author, params) ==
    RunHandler(spec, author,
               RunBind(spec, enabled[spec.name], is_admin(author),
                       is_player(author), params))

\* Boundary without the except Exception clause: only CommandException is
\* caught
BoundaryCommandOnly(r, command) ==
    IF r.exc = "CommandException"
    THEN [r EXCEPT !.handled = TRUE, !.command = command,
              !.reactions = {FAILURE_REACTION}]
    ELSE IF r.exc = "none"
    THEN [r EXCEPT !.handled = TRUE, !.command = command,
              !.error_text = NoText, !.logged = "info"]
    ELSE [r EXCEPT !.command = command, !.error_text = NoText,
              !.escaped = TRUE]

\* Lines 68-82: the except CommandException, except Exception (every other
\* exception here derives from it) and else clauses around spec.run, and
\* return True.
Boundary(r, command) ==
    IF r.exc = "CommandException"
    THEN [r EXCEPT !.handled = TRUE, !.command = command,
              !.reactions = {FAILURE_REACTION}]
    ELSE IF r.exc # "none"
    THEN [r EXCEPT !.handled = TRUE, !.command = command,
              !.error_text = NoText, !.logged = "exception",
              !.reactions = {FAILURE_REACTION}]
    ELSE IF r.exc = "none"
    THEN [r EXCEPT !.handled = TRUE, !.command = command,
              !.error_text = NoText, !.logged = "info"]
    ELSE [r EXCEPT !.command = command, !.error_text = NoText,
              !.escaped = TRUE]

check_for_command(commands, m, author, channel) ==
    IF ~StartsWith(m, <<PREFIX>>) THEN {Ignored}
    ELSE LET sc == SplitCommand(m)
         IN IF sc.command \notin DOMAIN commands THEN {Ignored}
            ELSE IF RoomGated(commands[sc.command], channel)
            THEN {[Ignored EXCEPT !.handled = TRUE, !.command = sc.command,
                       !.gated = TRUE]}
            ELSE {Boundary(r, sc.command) :
                  r \in run(commands[sc.command], author, sc.params)}

----------------------------------------------------------------------------
(* rpbot/bot.py: RoleplayBot.on_message *)

HELP == <<"h", "e", "l", "p">>

\* RoleplayBot.get_all_plugins: a BasePlugin, then the plugins of the active
\* roleplay (refresh_from_config, lines 181-195).
Plugins ==
    IF roleplay.active THEN <<BasePluginCommands, CharactersPluginCommands>>
    ELSE <<BasePluginCommands>>

\* Lines 124-126: the plugins in turn from the i-th on, until one has
\* handled the message; NextPlugin goes on after check_for_command of the
\* i-th gave ds.
RECURSIVE ProcessMessage(_, _, _, _)
RECURSIVE NextPlugin(_, _, _, _, _)
NextPlugin(i, m, author, channel, ds) ==
    IF \E d \in ds : d.handled THEN ds
    ELSE ProcessMessage(i + 1, m, author, channel)

ProcessMessage(i, m, author, channel) ==
    IF i > Len(Plugins) THEN {Ignored}
    ELSE NextPlugin(i, m, author, channel,
                    check_for_command(Plugins[i], m, author, channel))

on_message(m, author, channel) ==
    IF m = <<PREFIX>> \o HELP
    THEN {[Ignored EXCEPT !.output = <<Text("help", <<>>, NoneV)>>]}
    ELSE {IF ~d.handled /\ roleplay.active /\ channel \in roleplay.rooms
          THEN [d EXCEPT !.logged = "player_message"] ELSE d :
          d \in ProcessMessage(1, m, author, channel)}

----------------------------------------------------------------------------
(* Bounds and inputs *)

\* The messages the bot sends with a rolled result get the ids 1, 2, ...;
\* at most MaxMessages of them are sent.
MaxMessages == 3

\* The roleplays a guild may have been set up with: none, or one whose only
\* room is the hall and whose allow-list names start and leaves some
\* commands out.
Roleplays ==
    {NoRoleplay,
     [active |-> TRUE, rooms |-> {"hall"},
      commands |-> AllCommands \ {FATE_CMD, REVEAL_CMD, PICKUP_CMD}]}

NoEvent ==
    [kind |-> "none", content |-> <<>>, author |-> "", channel |-> "",
     cmd_params |-> <<>>, params |-> NoneV, param_values |-> <<>>,
     message_id |-> 0, emoji |-> "", new_id |-> 0, consumed |-> FALSE,
     handled |-> FALSE, command |-> <<>>, gated |-> FALSE, exc |-> "none",
     error_text |-> NoText, reactions |-> {}, logged |-> "none",
     escaped |-> FALSE, handler |-> "", args |-> <<>>, output |-> <<>>,
     rendered |-> FALSE, result |-> NoResult, call |-> NoCall,
     deleted |-> FALSE]

\* The event record of a message and of what dispatch did with it
MessageEvent(m, author, channel, d, new_id) ==
    [f \in DOMAIN NoEvent |->
        CASE f = "kind" -> "message"
          [] f = "content" -> m
          [] f = "author" -> author
          [] f = "channel" -> channel
          [] f = "new_id" -> new_id
          [] f \in DOMAIN d -> d[f]
          [] OTHER -> NoEvent[f]]

----------------------------------------------------------------------------
(* The reroll session table *)

\* RerollsWithout deleting nothing
RerollsKept(table, message_id) == table

\* del self.rerolls[message_id]
RerollsWithout(table, message_id) ==
    [id \in DOMAIN table \ {message_id} |-> table[id]]

\* Register without the test result.rerolls > 0
RegisterEveryResult(table, message_id, author, channel, h) ==
    IF h.rendered
    THEN LET session ==
                 [user |-> author, channel |-> channel,
                  callback |-> [character |-> h.call.character,
                                prisms |-> h.call.prisms,
                                force_result |-> h.call.force_result,
                                rerolls_left |-> h.result.rerolls - 1]]
         IN [id \in DOMAIN table \cup {message_id} |->
                IF id = message_id THEN session ELSE table[id]]
    ELSE table

\* CharactersPlugin._roll_prisms, lines 805-818: the table after a result
\* was rendered in the message message_id
Register(table, message_id, author, channel, h) ==
    IF h.rendered /\ h.result.rerolls > 0
    THEN LET session ==
                 [user |-> author, channel |-> channel,
                  callback |-> [character |-> h.call.character,
                                prisms |-> h.call.prisms,
                                force_result |-> h.call.force_result,
                                rerolls_left |-> h.result.rerolls - 1]]
         IN [id \in DOMAIN table \cup {message_id} |->
                IF id = message_id THEN session ELSE table[id]]
    ELSE table

\* BasePlugin.reload, d being what dispatch did with the message: the
\* handler was called and returned.  refresh_from_config has then
\* constructed the plugins of the roleplay anew and saved them in place of
\* the former ones (bot.py 181-194), and the __init__ of the new
\* CharactersPlugin has left its self.rerolls = {} (characters.py 93).
Reloaded(d) == d.handler = "reload" /\ d.exc = "none"

----------------------------------------------------------------------------
(* Events, each handled to completion before the next one is delivered *)

Init ==
    /\ roleplay \in Roleplays
    /\ enabled = EnabledAfterInit(roleplay)
    /\ rerolls = <<>>
    /\ next_id = 1
    /\ tasks = <<>>
    /\ started = [id \in 1..MaxMessages |-> 0]
    /\ roll = NewRoll
    /\ result = NoResult
    /\ folding = <<>>
    /\ folded = <<>>
    /\ last = NoEvent

\* RoleplayBot.on_message for the message m of author in channel
OnMessage(m, author, channel) ==
    \E d \in on_message(m, author, channel) :
        /\ d.rendered => next_id <= MaxMessages
        /\ last' = MessageEvent(m, author, channel, d,
                                IF d.rendered THEN next_id ELSE 0)
        /\ next_id' = IF d.rendered THEN next_id + 1 ELSE next_id
        /\ rerolls' = IF Reloaded(d) THEN <<>>
                       ELSE Register(rerolls, next_id, author, channel, d)
        /\ UNCHANGED <<roleplay, enabled, tasks, started, roll, result,
                       folding, folded>>

\* CharactersPlugin.process_react, lines 301-303: the reaction is the reroll
\* symbol, on a message with a session, by the session's user.
Matches(table, message_id, user, emoji) ==
    /\ emoji = REROLL_REACTION
    /\ message_id \in DOMAIN table
    /\ table[message_id].user = user

\* reroll_info['callback'](): _roll_prisms with the captured arguments
Callback(session) ==
    roll_prisms(session.callback.character, session.callback.prisms,
                session.callback.force_result,
                IntV(session.callback.rerolls_left))

ReactionEvent(message_id, user, emoji, h, new_id, consumed) ==
    [NoEvent EXCEPT !.kind = "reaction", !.message_id = message_id,
         !.author = user, !.emoji = emoji, !.new_id = new_id,
         !.consumed = consumed, !.exc = h.exc, !.escaped = (h.exc # "none"),
         !.output = h.output, !.rendered = h.rendered, !.result = h.result,
         !.call = h.call]

\* RoleplayBot.on_reaction_add: CharactersPlugin.process_react run to its end
\* (the other plugins define no process_react of their own and ignore the
\* reaction).
OnReactionAdd(message_id, user, emoji) ==
    /\ IF roleplay.active /\ Matches(rerolls, message_id, user, emoji)
       THEN \E h \in Callback(rerolls[message_id]) :
               /\ h.rendered => next_id <= MaxMessages
               /\ last' = ReactionEvent(message_id, user, emoji, h,
                              IF h.rendered THEN next_id ELSE 0,
                              h.exc = "none")
               /\ next_id' = IF h.rendered THEN next_id + 1 ELSE next_id
               /\ started' = [started EXCEPT ![message_id] = @ + 1]
               /\ rerolls' =
                      IF h.exc = "none"
                      THEN RerollsWithout(
                               Register(rerolls, next_id,
                                        rerolls[message_id].user,
                                        rerolls[message_id].channel, h),
                               message_id)
                      ELSE rerolls
       ELSE /\ last' = ReactionEvent(message_id, user, emoji,
                           HandlerSent(<<>>), 0, FALSE)
            /\ UNCHANGED <<next_id, started, rerolls>>
    /\ UNCHANGED <<roleplay, enabled, tasks, roll, result, folding, folded>>

----------------------------------------------------------------------------
(* Inputs: the texts members type *)

Line(command) == <<PREFIX>> \o command
LineWith(command, params) == <<PREFIX>> \o command \o <<" ">> \o params

\* Command names: the registered ones, help, and xyz, which no plugin
\* registers.  Parameter texts: empty, an integer, a word, two words, and a quote closed
\* before the end of a word.
DispatchParams == {<<>>, <<"3">>, <<"a", "b", "c">>, <<"x", " ", "y">>, <<"\"", "x", "\"", "y">>}

DispatchContents ==
    {PRISM_CMD}
    \cup {Line(c) : c \in AllCommands \cup {<<"x", "y", "z">>, HELP}}
    \cup {LineWith(c, p) : c \in AllCommands \cup {<<"x", "y", "z">>},
                           p \in DispatchParams}

NextDispatch ==
    \E m \in DispatchContents, author \in Members, channel \in Channels :
        OnMessage(m, author, channel)

\* Command dispatch alone: members send messages, nobody reacts.
SpecDispatch == Init /\ [][NextDispatch]_vars

----------------------------------------------------------------------------
(* Messages and reactions, each handled to completion *)

\* !prism Out, !prismfake with the forced total 4 and no prism, the
\* prisms Ad, Fk, and Fk and Out, and !reload
RollContents ==
    {Line(RELOAD_CMD),
     LineWith(PRISM_CMD, PrismName.Out),
     LineWith(PRISM_FAKE_CMD, <<"4">>),
     LineWith(PRISM_FAKE_CMD, <<"4", " ">> \o PrismName.Ad),
     LineWith(PRISM_FAKE_CMD, <<"4", " ">> \o PrismName.Fk),
     LineWith(PRISM_FAKE_CMD,
              <<"4", " ">> \o PrismName.Fk \o <<" ">> \o PrismName.Out)}

\* The members who roll and react: one who owns a Faker, one who owns none.
Rollers == {"alice", "bob"}

Next ==
    \/ \E m \in RollContents, author \in Rollers :
           OnMessage(m, author, "hall")
    \/ \E message_id \in 1..MaxMessages, user \in Rollers,
          emoji \in {REROLL_REACTION, "dog"} :
           OnReactionAdd(message_id, user, emoji)

Spec == Init /\ [][Next]_vars

----------------------------------------------------------------------------
(* Reactions handled as coroutines: process_react is suspended at each     *)
(* await, and other events are delivered meanwhile.  A task is a           *)
(* process_react past its checks; pc names the await it is suspended at.   *)

\* At most MaxTasks reactions pass the checks of process_react.
MaxTasks == 2

Task(message_id, user, channel, pc, h) ==
    [message_id |-> message_id, user |-> user, channel |-> channel,
     pc |-> pc, h |-> h]

ResumeEvent(task, exc, new_id, consumed) ==
    [NoEvent EXCEPT !.kind = "resume", !.message_id = task.message_id,
         !.author = task.user, !.emoji = REROLL_REACTION, !.exc = exc,
         !.escaped = (exc # "none"), !.new_id = new_id,
         !.consumed = consumed, !.rendered = (new_id # 0),
         !.result = task.h.result, !.call = task.h.call]

\* process_react, lines 300-304, and the callback's _roll_prisms up to its
\* await channel.send (line 804): the roll is folded and resolved, the
\* message not yet sent.
ReactStart(message_id, user, emoji) ==
    /\ roleplay.active
    /\ IF Matches(rerolls, message_id, user, emoji)
       THEN /\ Len(tasks) < MaxTasks
            /\ \E h \in Callback(rerolls[message_id]) :
                  /\ tasks' = Append(tasks,
                         Task(message_id, user, rerolls[message_id].channel,
                              IF h.exc # "none" THEN "failed"
                              ELSE IF h.rendered THEN "send" ELSE "clear",
                              h))
                  /\ last' = ReactionEvent(message_id, user, emoji,
                                 HandlerSent(<<>>), 0, FALSE)
            /\ started' = [started EXCEPT ![message_id] = @ + 1]
       ELSE /\ last' = ReactionEvent(message_id, user, emoji,
                           HandlerSent(<<>>), 0, FALSE)
            /\ UNCHANGED <<tasks, started>>
    /\ UNCHANGED <<roleplay, enabled, rerolls, next_id, roll, result,
                   folding, folded>>

\* _roll_prisms resumed after channel.send, lines 805-822: the session of
\* the new message is registered; the awaits that follow (add_reaction,
\* log_roll) touch nothing of the table, and process_react is suspended
\* next at reaction.clear(), line 305.
TaskSent(i) ==
    /\ tasks[i].pc = "send"
    /\ next_id <= MaxMessages
    /\ rerolls' = Register(rerolls, next_id, tasks[i].user, tasks[i].channel,
                           tasks[i].h)
    /\ next_id' = next_id + 1
    /\ tasks' = [tasks EXCEPT ![i].pc = "clear"]
    /\ last' = ResumeEvent(tasks[i], "none", next_id, FALSE)
    /\ UNCHANGED <<roleplay, enabled, started, roll, result, folding, folded>>

\* process_react resumed after reaction.clear(), lines 306-307: del
\* self.rerolls[message_id] raises KeyError when the entry is gone.
TaskCleared(i) ==
    /\ tasks[i].pc = "clear"
    /\ IF tasks[i].message_id \in DOMAIN rerolls
       THEN /\ rerolls' = RerollsWithout(rerolls, tasks[i].message_id)
            /\ tasks' = [tasks EXCEPT ![i].pc = "done"]
            /\ last' = ResumeEvent(tasks[i], "none", 0, TRUE)
       ELSE /\ tasks' = [tasks EXCEPT ![i].pc = "failed"]
            /\ last' = ResumeEvent(tasks[i], "KeyError", 0, FALSE)
            /\ UNCHANGED rerolls
    /\ UNCHANGED <<roleplay, enabled, next_id, started, roll, result,
                   folding, folded>>

NextAsync ==
    \/ \E author \in Rollers :
           OnMessage(LineWith(PRISM_CMD, PrismName.Out), author, "hall")
    \/ \E message_id \in 1..MaxMessages, user \in Rollers :
           ReactStart(message_id, user, REROLL_REACTION)
    \/ \E i \in 1..Len(tasks) : TaskSent(i)
    \/ \E i \in 1..Len(tasks) : TaskCleared(i)

SpecAsync == Init /\ [][NextAsync]_vars

\* One roll and the rerolls that follow it: alice sends !prism O1 while
\* the bot has rendered no result yet, and members add the reroll reaction.
NextChain ==
    \/ /\ next_id = 1
       /\ OnMessage(LineWith(PRISM_CMD, PrismName.O1), "alice", "hall")
    \/ \E message_id \in 1..MaxMessages, user \in Rollers,
          emoji \in {REROLL_REACTION, "dog"} :
           ReactStart(message_id, user, emoji)
    \/ \E i \in 1..Len(tasks) : TaskSent(i)
    \/ \E i \in 1..Len(tasks) : TaskCleared(i)

SpecChain == Init /\ [][NextChain]_vars

----------------------------------------------------------------------------
(* Roll.resolve on its own: a roll and forced totals drawn from bounded    *)
(* sets.                                                                   *)

MaxDice == 2
MaxModifier == 1
MaxForce == 7

RollSpecs ==
    {Roll(num_dice, modifier, 0, <<>>) :
        num_dice \in (0 - 1)..MaxDice,
        modifier \in (0 - MaxModifier)..MaxModifier}

\* force_result: None, or the int the result parameter was converted to
ForceResults == {NoneV} \cup {IntV(n) : n \in (0 - 2)..MaxForce}

InitResolve ==
    /\ roleplay = NoRoleplay
    /\ enabled = EnabledAfterInit(NoRoleplay)
    /\ rerolls = <<>>
    /\ next_id = 1
    /\ tasks = <<>>
    /\ started = [id \in 1..MaxMessages |-> 0]
    /\ roll \in RollSpecs
    /\ result = NoResult
    /\ folding = <<>>
    /\ folded = <<>>
    /\ last = NoEvent

\* result = roll.resolve(force_result)
Resolve(force_result) ==
    /\ \E o \in resolve(roll, force_result) :
          /\ o.exc = "none"
          /\ result' = o.result
    /\ last' = [NoEvent EXCEPT !.kind = "resolve",
                    !.call = [NoCall EXCEPT !.force_result = force_result]]
    /\ UNCHANGED <<roleplay, enabled, rerolls, next_id, tasks, started, roll,
                   folding, folded>>

NextResolve == \E force_result \in ForceResults : Resolve(force_result)

SpecResolve == InitResolve /\ [][NextResolve]_vars

----------------------------------------------------------------------------
(* The fold of _roll_prisms on its own: prisms already looked up, applied  *)
(* one by one to a new Roll.                                               *)

MaxAdd == 2
MaxMult == 3
MaxPrisms == 2

PrismChoices ==
    {[Prism("adder", PrismName.Ad) EXCEPT !.num_dice = n] : n \in 0..MaxAdd}
    \cup {[Prism("multiplier", PrismName.Mu) EXCEPT !.multiplier = n] :
              n \in 0..MaxMult}
    \cup {[Prism("bonus", PrismName.Bo) EXCEPT !.modifier = 0 - 1]}

PrismLists == UNION {[1..n -> PrismChoices] : n \in 0..MaxPrisms}

InitFold ==
    /\ roleplay = NoRoleplay
    /\ enabled = EnabledAfterInit(NoRoleplay)
    /\ rerolls = <<>>
    /\ next_id = 1
    /\ tasks = <<>>
    /\ started = [id \in 1..MaxMessages |-> 0]
    /\ roll = NewRoll
    /\ result = NoResult
    /\ folding \in PrismLists
    /\ folded = <<>>
    /\ last = NoEvent

\* One turn of the loop of _roll_prisms, lines 776-791: prism.apply on the
\* roll accumulated so far (none of these prisms is a SpecialPrism, so param
\* is None).
ApplyPrism ==
    /\ folding # <<>>
    /\ LET a == apply(Head(folding), Characters["alice"], roll, NoneV)
       IN /\ a.exc = "none"
          /\ roll' = a.roll
    /\ folding' = Tail(folding)
    /\ folded' = Append(folded, Head(folding))
    /\ last' = [NoEvent EXCEPT !.kind = "apply"]
    /\ UNCHANGED <<roleplay, enabled, rerolls, next_id, tasks, started,
                   result>>

SpecFold == InitFold /\ [][ApplyPrism]_vars

----------------------------------------------------------------------------
(* The loop of _roll_prisms and the resolution that follows it: a member's *)
(* character rolls a list of prism commands, each looked up, matched       *)
(* against PRISM_ROLL_REGEX and applied, and the roll is then resolved.    *)

\* A roll of more than MaxRolled dice is not resolved.
MaxRolled == 3

\* The prisms argument of _roll_prisms when it is not empty: one prism
\* command, or two of which the first is Ad, Basic, Fk or W6.  A command is a prism's name,
\* alone or with a parameter in brackets.
RollLists ==
    LET With(name, p) == name \o <<"[">> \o p \o <<"]">>
        cmds == {PrismName.Ad, PrismName.Bo, PrismName.Mu, PrismName.O1,
                 PrismName.Me, PrismName.Fk, PrismName.W6, PrismName.Force,
                 PrismName.Basic,
                 With(PrismName.Ad, <<"1">>), With(PrismName.Bo, <<"1">>),
                 With(PrismName.Mu, <<"2">>), With(PrismName.O1, <<"1">>),
                 With(PrismName.Fk, <<"1">>), With(PrismName.Fk, <<"x">>),
                 With(PrismName.Sp, <<"-", "1">>)}
    IN {<<c>> : c \in cmds}
       \cup {<<c1, c2>> : c1 \in {PrismName.Ad, PrismName.Basic,
                                  PrismName.Fk, PrismName.W6},
                          c2 \in cmds}

InitRoll ==
    /\ roleplay = NoRoleplay
    /\ enabled = EnabledAfterInit(NoRoleplay)
    /\ rerolls = <<>>
    /\ next_id = 1
    /\ tasks = <<>>
    /\ started = [id \in 1..MaxMessages |-> 0]
    /\ roll = NewRoll
    /\ result = NoResult
    /\ folding \in RollLists
    /\ folded = <<>>
    /\ \E author \in Rollers :
          last = [NoEvent EXCEPT !.kind = "roll", !.author = author]

\* One turn of the loop of _roll_prisms, lines 776-788, for the character
\* of last.author: the turn is recorded with the prism found, the parameter
\* matched and the roll before it, and an exception ends the loop.
RollTurn ==
    /\ last.kind = "roll" /\ last.exc = "none"
    /\ folding # <<>>
    /\ LET character == Characters[last.author]
           match == PRISM_ROLL_REGEX(Head(folding))
           f == find_prism(character, Strip(match.query))
           step == ApplyFound(character, roll, match.param, f)
       IN /\ roll' = step.roll
          /\ folded' = Append(folded, [prism_cmd |-> Head(folding),
                                       found |-> (f.exc = "none"),
                                       prism |-> f.prism,
                                       param |-> match.param,
                                       before |-> roll])
          /\ last' = [last EXCEPT !.exc = step.exc,
                                  !.error_text = step.text]
    /\ folding' = Tail(folding)
    /\ UNCHANGED <<roleplay, enabled, rerolls, next_id, tasks, started,
                   result>>

\* _roll_prisms, lines 776-791: the loop, then roll.resolve(force_result)
\* once no turn has raised; prism_fake passes a forced total only when the
\* prisms name a Faker (lines 597-606).
SpecRoll ==
    InitRoll /\ [][\/ RollTurn
                   \/ \E force_result \in ForceResults :
                         /\ last.kind = "roll" /\ last.exc = "none"
                         /\ folding = <<>>
                         /\ roll.num_dice <= MaxRolled
                         /\ force_result.t # "None" =>
                                \E i \in 1..Len(folded) :
                                    IsFakerPrism(folded[i].prism)
                         /\ Resolve(force_result)]_vars

----------------------------------------------------------------------------
(* PluginCommand.run on its own: the declared parameters and the parameter *)
(* text drawn from bounded sets, for an enabled command anybody may use.   *)

\* The parameter texts are at most MaxLine characters long.
MaxLine == 5

\* params as check_for_command hands it to run: None when the message has
\* no space after the command name, else the text after that space; a
\* message's content never ends with whitespace.
ParamTexts ==
    {NoneV} \cup
    {StrV(p) : p \in {q \in UNION {[1..n -> {"x", "\"", " "}] :
                                      n \in 1..MaxLine} : q[Len(q)] # " "}}

\* self.params of a command: one parameter, or a required one and another;
\* the last one is optional or required, and collects or not.
ParamLists ==
    LET lasts == {PluginCommandParam(<<"v">>, optional, NoneV, "", collect) :
                      optional \in BOOLEAN, collect \in BOOLEAN}
    IN {<<param>> : param \in lasts}
       \cup {<<Required(<<"n">>), param>> : param \in lasts}

InitParams ==
    /\ roleplay = NoRoleplay
    /\ enabled = EnabledAfterInit(NoRoleplay)
    /\ rerolls = <<>>
    /\ next_id = 1
    /\ tasks = <<>>
    /\ started = [id \in 1..MaxMessages |-> 0]
    /\ roll = NewRoll
    /\ result = NoResult
    /\ folding = <<>>
    /\ folded = <<>>
    /\ \E cmd_params \in ParamLists, params \in ParamTexts :
           last = [NoEvent EXCEPT !.kind = "params",
                       !.cmd_params = cmd_params, !.params = params]

\* check_for_command, lines 67-82, for a command with the parameters
\* last.cmd_params and the text last.params: spec.run inside the try
\* statement.  param_values is what lines 147-159 of run collected.
RunParams ==
    /\ last.kind = "params"
    /\ LET spec == PluginCommand(<<"c">>, "handler", FALSE, FALSE, FALSE,
                                 last.cmd_params)
           b == RunBind(spec, TRUE, FALSE, FALSE, last.params)
       IN \E r \in RunHandler(spec, "alice", b) :
              last' = [MessageEvent(<<>>, "alice", "hall",
                                    Boundary(r, spec.name), 0)
                       EXCEPT !.kind = "run",
                              !.cmd_params = last.cmd_params,
                              !.params = last.params,
                              !.param_values =
                                  Tokenize(last.cmd_params,
                                           last.params).param_values]
    /\ UNCHANGED <<roleplay, enabled, rerolls, next_id, tasks, started, roll,
                   result, folding, folded>>

SpecParams == InitParams /\ [][RunParams]_vars

\* PluginCommand.run called with any text of at most MaxLine spaces, quotes
\* and other characters, one that ends with spaces included, for a command
\* whose last parameter collects.
InitTokens ==
    /\ roleplay = NoRoleplay
    /\ enabled = EnabledAfterInit(NoRoleplay)
    /\ rerolls = <<>>
    /\ next_id = 1
    /\ tasks = <<>>
    /\ started = [id \in 1..MaxMessages |-> 0]
    /\ roll = NewRoll
    /\ result = NoResult
    /\ folding = <<>>
    /\ folded = <<>>
    /\ \E cmd_params \in {l \in ParamLists : l[Len(l)].collect},
          params \in UNION {[1..n -> {"x", "\"", " "}] : n \in 1..MaxLine} :
           last = [NoEvent EXCEPT !.kind = "params",
                       !.cmd_params = cmd_params, !.params = StrV(params)]

SpecTokens == InitTokens /\ [][RunParams]_vars

----------------------------------------------------------------------------
(* Properties of command dispatch *)

\* The registered command of name c, looked up as on_message does: in the
\* BasePlugin first.
CommandSpec(c) ==
    IF c \in DOMAIN BasePluginCommands THEN BasePluginCommands[c]
    ELSE CharactersPluginCommands[c]

IsRegistered(c) ==
    c \in DOMAIN BasePluginCommands
    \/ (roleplay.active /\ c \in DOMAIN CharactersPluginCommands)

\* The last event is a message naming the registered command c: its text is
\* the prefix and c, alone or followed by a space and parameters.
Invokes(c) ==
    /\ last.kind = "message"
    /\ IsRegistered(c)
    /\ \/ last.content = Line(c)
       \/ StartsWith(last.content, LineWith(c, <<>>))

RoomGatePasses(spec, channel) ==
    ~spec.requires_room \/ (roleplay.active /\ channel \in roleplay.rooms)

MayUse(spec, member) ==
    /\ ~spec.requires_admin \/ is_admin(member)
    /\ ~spec.requires_player \/ is_player(member) \/ is_admin(member)

\* args holds one value for each declared parameter: the default of an
\* optional parameter, or a non-empty value of the parameter's type.
IsBound(params, args) ==
    /\ Len(args) = Len(params)
    /\ \A i \in 1..Len(params) :
          \/ params[i].optional /\ args[i] = params[i].default
          \/ /\ Truthy(args[i]) \/ args[i].t = "int"
             /\ args[i].t = IF params[i].converter = "int" THEN "int"
                            ELSE IF params[i].collect THEN "list" ELSE "str"

\* C1: a command's handler is invoked only for a message that starts with
\* the prefix and names a registered command, in a channel that passes the
\* command's room gate, from a caller allowed to use it, while the command
\* is enabled, with every declared parameter tokenized and bound.
C1_HandlerOnlyWhenRunnable ==
    (last.kind = "message" /\ last.handler # "") =>
        \E c \in AllCommands :
            /\ Invokes(c)
            /\ last.handler = CommandSpec(c).handler
            /\ RoomGatePasses(CommandSpec(c), last.channel)
            /\ MayUse(CommandSpec(c), last.author)
            /\ enabled[c]
            /\ IsBound(CommandSpec(c).params, last.args)

\* C1 witness: an administrator's !refresh 3 in the hall reached the handler.
C1_Witness ==
    /\ Invokes(REFRESH_CMD)
    /\ last.handler = "refresh"
    /\ last.args = <<IntV(3)>>
    /\ last.channel = "hall"

\* C2: when a recognized command gets past the room gate, dispatch reports
\* the message handled and lets no error escape; a CommandException's text
\* is sent to the channel and the failure reaction added; any other
\* exception is logged, the failure reaction added, and no text sent.
C2_ErrorBoundary ==
    \A c \in AllCommands :
        (Invokes(c) /\ RoomGatePasses(CommandSpec(c), last.channel)) =>
            /\ last.handled /\ ~last.escaped
            /\ last.exc = "CommandException" =>
                  /\ last.error_text # NoText
                  /\ last.reactions = {FAILURE_REACTION}
                  /\ last.logged = "none"
            /\ last.exc \notin {"none", "CommandException"} =>
                  /\ last.error_text = NoText
                  /\ last.reactions = {FAILURE_REACTION}
                  /\ last.logged = "exception"
            /\ last.exc = "none" =>
                  last.error_text = NoText /\ last.reactions = {}

\* C2 witness: an unexpected failure (int() rejecting a token) was caught.
C2_Witness ==
    /\ Invokes(REFRESH_CMD)
    /\ last.exc = "ValueError"
    /\ last.reactions = {FAILURE_REACTION}

\* C3 as stated: whatever the command's other flags and the channel, a
\* caller who may not use a recognized command gets the authorization error
\* and the handler is not executed.
C3_UnauthorizedAlways ==
    \A c \in AllCommands :
        (Invokes(c) /\ ~MayUse(CommandSpec(c), last.author)) =>
            /\ last.exc = "CommandException"
            /\ last.error_text = Text("not_authorised", c, NoneV)
            /\ last.handler = ""

\* C3 amended: a caller who may not use a recognized command never reaches
\* the handler; when the room gate passes, dispatch fails with the
\* authorization error, sent to the channel with the failure reaction,
\* whether or not the command is enabled; when the room gate does not pass,
\* dispatch is the silent no-op of the gate instead.
C3_UnauthorizedUnlessGated ==
    \A c \in AllCommands :
        (Invokes(c) /\ ~MayUse(CommandSpec(c), last.author)) =>
            /\ last.handler = ""
            /\ last.handled
            /\ IF RoomGatePasses(CommandSpec(c), last.channel)
               THEN /\ last.exc = "CommandException"
                    /\ last.error_text = Text("not_authorised", c, NoneV)
                    /\ last.reactions = {FAILURE_REACTION}
               ELSE /\ last.gated
                    /\ last.exc = "none"
                    /\ last.error_text = NoText
                    /\ last.reactions = {}

\* C3 witness: a member who is no administrator used the disabled, room-bound
\* !reveal in the hall and got the authorization error.
C3_Witness ==
    /\ Invokes(REVEAL_CMD)
    /\ ~enabled[REVEAL_CMD]
    /\ last.channel = "hall" /\ roleplay.active
    /\ ~is_admin(last.author)
    /\ last.error_text = Text("not_authorised", REVEAL_CMD, NoneV)

----------------------------------------------------------------------------
(* Properties of the roll handlers and of the reroll sessions *)

\* The member has an active character, and one of the queries of prisms
\* names a Faker prism the character owns.
NamesFaker(member, prisms) ==
    /\ member \in DOMAIN Characters
    /\ Truthy(prisms)
    /\ \E i \in 1..Len(prisms.l) :
          LET f == find_prism(Characters[member], Strip(prisms.l[i]))
          IN f.exc = "none" /\ IsFakerPrism(f.prism)

C5_RerollOneShot ==
    [][last'.kind = "reaction" =>
          /\ last'.consumed =>
                /\ last'.message_id \notin DOMAIN rerolls'
                /\ started'[last'.message_id] = 1
          /\ (\/ last'.message_id \notin DOMAIN rerolls
              \/ rerolls[last'.message_id].user # last'.author
              \/ last'.emoji # REROLL_REACTION) =>
                 /\ rerolls' = rerolls
                 /\ started' = started
                 /\ next_id' = next_id
                 /\ ~last'.rendered
                 /\ ~last'.consumed]_vars

\* C5 witness: alice's roll (message 1) was rerolled once by her (message
\* 2), and her second reroll reaction on message 1 did nothing.
C5_Witness ==
    /\ next_id = 3
    /\ started[1] = 1
    /\ 1 \notin DOMAIN rerolls
    /\ 2 \in DOMAIN rerolls /\ rerolls[2].user = "alice"
    /\ last.kind = "reaction"
    /\ last.message_id = 1
    /\ last.author = "alice"
    /\ last.emoji = REROLL_REACTION
    /\ ~last.consumed

\* C6: with process_react suspended at its awaits and other reactions
\* delivered meanwhile, the continuation of a session is started at most
\* once.
C6_NeverConsumedTwice ==
    \A message_id \in 1..MaxMessages : started[message_id] <= 1

\* C7: when a total is forced and the result's die count n admits an
\* assignment (n <= target <= 6 * n, target the forced total minus the
\* modifier), the result's total is the forced total; and every die of a
\* forced resolution is within 1..6.
C7_ForcedTotalReached ==
    (last.kind = "resolve" /\ last.call.force_result.t = "int") =>
        LET forcedTotal == last.call.force_result.n
            target == forcedTotal - roll.modifier
            n == Len(result.dice)
        IN /\ (n * 1 <= target /\ target <= n * 6) =>
                  total(result) = forcedTotal
           /\ \A i \in 1..n : result.dice[i] \in 1..6

\* C8: prisms are applied left to right and a Multiplier scales the die
\* count accumulated so far: from a new roll, Adder(a) then Multiplier(m)
\* gives (0 + a) * m dice and Multiplier(m) then Adder(a) gives 0 * m + a;
\* with the prisms Ad (adds 2) and Mu (multiplies by 3), 6 and 2.
C8_MultiplierScalesDiceSoFar ==
    /\ Len(folded) = 2 /\ folded[1].kind = "adder"
           /\ folded[2].kind = "multiplier" =>
           roll.num_dice = (0 + folded[1].num_dice) * folded[2].multiplier
    /\ Len(folded) = 2 /\ folded[1].kind = "multiplier"
           /\ folded[2].kind = "adder" =>
           roll.num_dice = 0 * folded[1].multiplier + folded[2].num_dice
    /\ FoldPrisms(Characters["alice"], <<PrismName.Ad, PrismName.Mu>>, 1,
                  NewRoll).roll.num_dice = 6
    /\ FoldPrisms(Characters["alice"], <<PrismName.Mu, PrismName.Ad>>, 1,
                  NewRoll).roll.num_dice = 2

\* C8 witness: Adder(2) then Multiplier(3) were applied and left 6 dice.
C8_Witness ==
    /\ Len(folded) = 2
    /\ folded[1].kind = "adder" /\ folded[1].num_dice = 2
    /\ folded[2].kind = "multiplier" /\ folded[2].multiplier = 3
    /\ roll.num_dice = 6

----------------------------------------------------------------------------
(* Properties of parameter binding *)

\* The last event is a message naming the registered command c, in a
\* channel that passes its room gate, from a caller who may use it, while
\* it is enabled: dispatch goes on to tokenize and bind.
Runs(c) ==
    /\ Invokes(c)
    /\ RoomGatePasses(CommandSpec(c), last.channel)
    /\ MayUse(CommandSpec(c), last.author)
    /\ enabled[c]

\* C9: when the converter of a parameter rejects the supplied token (int
\* given a text that is no integer), dispatch fails with the
\* CommandException naming the parameter and the text, which is sent to the
\* channel; the failure is not logged as an unexpected exception.
C9_ConverterFailureIsParamError ==
    \A c \in {REFRESH_CMD, ACTION_POINTS_CMD, FATE_CMD}, p \in DispatchParams :
        (/\ Runs(c)
         /\ last.content = LineWith(c, p)
         /\ Strip(p) # <<>>
         /\ PyInt(Strip(p)).exc # "none") =>
            /\ last.exc = "CommandException"
            /\ last.error_text =
                   Text("invalid_value", CommandSpec(c).params[1].name,
                        StrV(Strip(p)))
            /\ last.logged # "exception"
            /\ last.handler = ""

\* C10: with no parameter text at all, an optional parameter is bound to
\* its default (0 for the points of !ap) and the first required parameter
\* fails with the CommandException naming it; the text supplied to a sole
\* parameter that has no converter and does not collect reaches the handler
\* as that string.
C10_BindAbsentAndRaw ==
    \A c \in AllCommands :
        LET spec == CommandSpec(c)
            required == {i \in 1..Len(spec.params) : ~spec.params[i].optional}
            first == CHOOSE i \in required : \A j \in required : i <= j
        IN Runs(c) =>
            /\ last.content = Line(c) =>
                  IF required = {}
                  THEN /\ last.handler = spec.handler
                       /\ Len(last.args) = Len(spec.params)
                       /\ \A i \in 1..Len(spec.params) :
                              last.args[i] = spec.params[i].default
                  ELSE /\ last.handler = ""
                       /\ last.exc = "CommandException"
                       /\ last.error_text =
                              Text("invalid_value", spec.params[first].name,
                                   NoneV)
            /\ \A p \in DispatchParams :
                  (/\ last.content = LineWith(c, p)
                   /\ Len(spec.params) = 1
                   /\ spec.params[1].converter = ""
                   /\ ~spec.params[1].collect
                   /\ Strip(p) # <<>>) =>
                      /\ last.handler = spec.handler
                      /\ last.args = <<StrV(Strip(p))>>

\* C10 witness: a player's bare !ap reached the handler with points = 0.
C10_Witness ==
    /\ Runs(ACTION_POINTS_CMD)
    /\ last.content = Line(ACTION_POINTS_CMD)
    /\ last.handler = "action_points"
    /\ last.args = <<IntV(0)>>

----------------------------------------------------------------------------
(* Properties of the tokenizer (PluginCommand.run, lines 145-159) *)

\* C11 as stated: a double-quoted argument given to a command whose only
\* declared parameter does not collect is delivered without its quotes:
\* the text "w" gives the single raw value w.
C11_SoleQuotedArgumentUnquoted ==
    (/\ last.kind = "run"
     /\ Len(last.cmd_params) = 1 /\ ~last.cmd_params[1].collect
     /\ last.params.t = "str"
     /\ Len(last.params.s) >= 2
     /\ \A i \in 1..Len(last.params.s) :
            last.params.s[i] = "\"" <=> i \in {1, Len(last.params.s)}) =>
        last.param_values =
            <<SubSeq(last.params.s, 2, Len(last.params.s) - 1)>>

\* C11: a double-quoted argument "w" is delivered without its quotes, as
\* the single raw value w less the blanks around it, when the first
\* declared parameter is read token by token (it collects, or another
\* parameter follows it); a command whose only declared parameter does not
\* collect gets the single raw value "w", quotes kept.
C11_QuotedArgument ==
    (/\ last.kind = "run"
     /\ last.params.t = "str"
     /\ Len(last.params.s) >= 2
     /\ \A i \in 1..Len(last.params.s) :
            last.params.s[i] = "\"" <=> i \in {1, Len(last.params.s)}) =>
        IF Len(last.cmd_params) = 1 /\ ~last.cmd_params[1].collect
        THEN last.param_values = <<last.params.s>>
        ELSE last.param_values =
                 <<Strip(SubSeq(last.params.s, 2, Len(last.params.s) - 1))>>

\* C11 witness: "x x" given to a sole required parameter reached the
\* handler with its quotes.
C11_Witness ==
    /\ last.kind = "run"
    /\ Len(last.cmd_params) = 1 /\ ~last.cmd_params[1].collect
    /\ last.params = StrV(<<"\"", "x", " ", "x", "\"">>)
    /\ last.handler = "handler"
    /\ last.args = <<StrV(<<"\"", "x", " ", "x", "\"">>)>>

C13_UnterminatedQuoteFails ==
    (/\ last.kind = "run"
     /\ last.params.t = "str"
     /\ Len(last.cmd_params) = 2 \/ last.cmd_params[1].collect
     /\ LET q == LStrip(last.params.s)
        IN \A i \in 1..Len(q) : q[i] = "\"" <=> i = 1) =>
        /\ last.exc = "CommandException"
        /\ last.error_text.kind = "invalid_parameters"
        /\ last.handler = ""

\* C14 as stated: when the first declared parameter is read token by token
\* and the text starts with a quoted token, a character other than a space
\* right after the closing quote fails the run with the CommandException
\* for invalid parameters, sent with the failure reaction, and the handler
\* is not called; otherwise the token is the text between the quotes.
C14_QuotedTokenVerbatim ==
    (/\ last.kind = "run"
     /\ last.params.t = "str"
     /\ Len(last.cmd_params) = 2 \/ last.cmd_params[1].collect
     /\ Head(LStrip(last.params.s)) = "\""
     /\ FindFrom(LStrip(last.params.s), "\"", 2) # 0) =>
        LET q == LStrip(last.params.s)
            closing == FindFrom(q, "\"", 2)
        IN IF closing < Len(q) /\ q[closing + 1] # " "
           THEN /\ last.exc = "CommandException"
                /\ last.error_text =
                       Text("invalid_parameters", <<>>, last.params)
                /\ last.reactions = {FAILURE_REACTION}
                /\ last.handler = ""
           ELSE /\ last.param_values # <<>>
                /\ last.param_values[1] = SubSeq(q, 2, closing - 1)

\* C14: as above, but the token is the text between the quotes less the
\* blanks at its ends.
C14_QuotedToken ==
    (/\ last.kind = "run"
     /\ last.params.t = "str"
     /\ Len(last.cmd_params) = 2 \/ last.cmd_params[1].collect
     /\ Head(LStrip(last.params.s)) = "\""
     /\ FindFrom(LStrip(last.params.s), "\"", 2) # 0) =>
        LET q == LStrip(last.params.s)
            closing == FindFrom(q, "\"", 2)
        IN IF closing < Len(q) /\ q[closing + 1] # " "
           THEN /\ last.exc = "CommandException"
                /\ last.error_text =
                       Text("invalid_parameters", <<>>, last.params)
                /\ last.reactions = {FAILURE_REACTION}
                /\ last.handler = ""
           ELSE /\ last.param_values # <<>>
                /\ last.param_values[1] = Strip(SubSeq(q, 2, closing - 1))

\* C14 witness: "x"x given to a command of two parameters failed with the
\* CommandException for invalid parameters.
C14_Witness ==
    /\ last.kind = "run"
    /\ Len(last.cmd_params) = 2
    /\ last.params = StrV(<<"\"", "x", "\"", "x">>)
    /\ last.exc = "CommandException"
    /\ last.error_text.kind = "invalid_parameters"
    /\ last.handler = ""

----------------------------------------------------------------------------
(* Properties of parameter binding, continued *)

\* C15: when no token is left for a collecting parameter, optional or
\* required, binding does not fail with the CommandException for an invalid
\* value: the handler is called.
C15_CollectWithoutTokensBinds ==
    (/\ last.kind = "run"
     /\ last.cmd_params[Len(last.cmd_params)].collect
     /\ last.error_text.kind # "invalid_parameters"
     /\ Len(last.param_values) = Len(last.cmd_params) - 1
     /\ \A i \in 1..Len(last.param_values) : last.param_values[i] # <<>>) =>
        /\ last.error_text.kind # "invalid_value"
        /\ last.handler = "handler"

----------------------------------------------------------------------------
(* Properties of command dispatch, continued *)

\* C16: a message naming a registered command that requires a room, sent in
\* a channel that is no room of the active roleplay or while no roleplay is
\* active, is reported handled and nothing else happens: no text is sent,
\* no reaction added, nothing logged, the handler is not called, the message
\* is not deleted, and the plugins' state stays as it was.
C16_RoomGatedIsSilentNoOp ==
    [][\A c \in AllCommands :
          (/\ Invokes(c)'
           /\ CommandSpec(c).requires_room
           /\ ~roleplay.active \/ last'.channel \notin roleplay.rooms) =>
              /\ last'.handled
              /\ last'.exc = "none" /\ ~last'.escaped
              /\ last'.error_text = NoText /\ last'.output = <<>>
              /\ last'.reactions = {}
              /\ last'.logged = "none"
              /\ last'.handler = "" /\ last'.args = <<>>
              /\ ~last'.rendered /\ ~last'.deleted
              /\ UNCHANGED <<roleplay, enabled, rerolls, next_id, tasks,
                             started>>]_vars

\* C16 witness: an administrator's !reveal abc in the lobby, which is no
\* room of the active roleplay, was reported handled.
C16_Witness ==
    /\ roleplay.active
    /\ Invokes(REVEAL_CMD)
    /\ last.content = LineWith(REVEAL_CMD, <<"a", "b", "c">>)
    /\ is_admin(last.author)
    /\ last.channel = "lobby"
    /\ last.handled
    /\ last.reactions = {}

\* C17: when a caller who may use it invokes a registered command whose
\* enabled flag is false, in a channel that passes the room gate, dispatch
\* fails with the CommandException saying the command is disabled, sent to
\* the channel with the failure reaction; the parameters are neither
\* tokenized nor bound (a malformed text gives the same error) and the
\* handler is not called.
C17_DisabledIsCommandError ==
    \A c \in AllCommands :
        (/\ Invokes(c)
         /\ RoomGatePasses(CommandSpec(c), last.channel)
         /\ MayUse(CommandSpec(c), last.author)
         /\ ~enabled[c]) =>
            /\ last.handled
            /\ last.exc = "CommandException"
            /\ last.error_text = Text("disabled", c, NoneV)
            /\ last.reactions = {FAILURE_REACTION}
            /\ last.logged = "none"
            /\ last.handler = "" /\ last.args = <<>>

\* C17 witness: !fate "x"y, a malformed text for a command the active
\* roleplay does not allow, was answered with the disabled error.
C17_Witness ==
    /\ roleplay.active
    /\ Invokes(FATE_CMD)
    /\ last.content = LineWith(FATE_CMD, <<"\"", "x", "\"", "y">>)
    /\ last.error_text = Text("disabled", FATE_CMD, NoneV)
    /\ last.reactions = {FAILURE_REACTION}

----------------------------------------------------------------------------
(* Properties of the reroll session table *)

\* C18: every entry of the session table was put there by the event that
\* rendered a result with more than zero rerolls, under the id of the
\* message that rendered it and with the user who invoked the roll (for a
\* reroll, the user of the session replayed); a rendered result with zero
\* rerolls creates no entry, and an entry is never rewritten.
C18_SessionsOfRenderedResults ==
    [][/\ \A id \in DOMAIN rerolls' :
             IF id \in DOMAIN rerolls
             THEN rerolls'[id] = rerolls[id]
             ELSE /\ last'.rendered
                  /\ last'.result.rerolls > 0
                  /\ id = last'.new_id /\ id = next_id
                  /\ rerolls'[id].user = last'.author
                  /\ last'.kind = "reaction" =>
                         rerolls'[id].user = rerolls[last'.message_id].user
       /\ last'.rendered /\ last'.result.rerolls = 0 =>
             DOMAIN rerolls' \subseteq DOMAIN rerolls]_vars

\* C18 witness: alice's !prism Out was rendered in message 1 with 2 rerolls
\* and has its session there.
C18_Witness ==
    /\ last.kind = "message" /\ last.author = "alice"
    /\ last.rendered /\ last.new_id = 1
    /\ last.result.rerolls = 2
    /\ 1 \in DOMAIN rerolls /\ rerolls[1].user = "alice"

\* C19: from one roll whose result has k rerolls, at most k rerolls are
\* ever executed: after alice's !prism O1, whose result has 1 reroll, at
\* most one continuation is ever started, whatever the members react with
\* and whenever.
C19_AtMostKRerolls ==
    SumSeq(started) <= 1

\* C20: the session table changes only by the entry of a result just
\* rendered and by the removal of the entry whose reaction was consumed: a
\* message adds at most the entry of the result it rendered and removes
\* none, a reaction removes at most the entry it matched, and a command
\* that fails, a reaction that matches no session and a command that rolls
\* no prisms leave the table as it was.
C20_TableChangesOnlyByRollsAndReactions ==
    [][/\ \A id \in DOMAIN rerolls \cap DOMAIN rerolls' :
             rerolls'[id] = rerolls[id]
       /\ DOMAIN rerolls' \ DOMAIN rerolls \subseteq
             IF last'.rendered /\ last'.kind \in {"message", "reaction"}
             THEN {last'.new_id} ELSE {}
       /\ DOMAIN rerolls \ DOMAIN rerolls' \subseteq
             IF last'.kind = "reaction" /\ last'.consumed
             THEN {last'.message_id} ELSE {}
       /\ (\/ last'.kind = "message" /\ last'.exc # "none"
           \/ last'.kind = "message"
                /\ last'.handler \notin {"prism", "prism_fake"}
           \/ last'.kind = "reaction"
                /\ ~Matches(rerolls, last'.message_id, last'.author,
                            last'.emoji))
          => rerolls' = rerolls]_vars

----------------------------------------------------------------------------
(* Properties of prism application in a roll *)

\* C21: in a prism roll, a parameter p written on a prism of a kind other
\* than Special takes effect: after the turn of an Adder the die count is
\* the one before plus the prism's count plus int(p), of a Bonus the
\* modifier is the one before plus the prism's modifier plus int(p), of an
\* Output the rerolls are those before plus the tier plus int(p), and of a
\* Multiplier the die count is the one before times the factor times int(p).
C21_InlineParameterTakesEffect ==
    \A i \in 1..Len(folded) :
        LET turn == folded[i]
            after == IF i < Len(folded) THEN folded[i + 1].before ELSE roll
            p == PyInt(turn.param.s)
        IN (turn.found /\ turn.param.t = "str" /\ p.exc = "none") =>
              /\ turn.prism.kind = "adder" =>
                     after.num_dice =
                         turn.before.num_dice + turn.prism.num_dice + p.val
              /\ turn.prism.kind = "bonus" =>
                     after.modifier =
                         turn.before.modifier + turn.prism.modifier + p.val
              /\ turn.prism.kind = "output" =>
                     after.rerolls =
                         turn.before.rerolls + turn.prism.tier + p.val
              /\ turn.prism.kind = "multiplier" =>
                     after.num_dice =
                         turn.before.num_dice * turn.prism.multiplier * p.val

\* C22: the turn of a Faker prism, with no parameter and with any
\* parameter alike, raises no error and leaves the die count, the
\* modifier, the rerolls and the weights of the roll as they were.
C22_FakerHasNoEffect ==
    \A i \in 1..Len(folded) :
        (folded[i].found /\ IsFakerPrism(folded[i].prism)) =>
            /\ (i = Len(folded) /\ last.kind = "roll") => last.exc = "none"
            /\ folded[i].before =
                   IF i < Len(folded) THEN folded[i + 1].before ELSE roll

----------------------------------------------------------------------------
(* Properties of the resolution of a roll *)

\* C24: a resolution that is not forced (no forced total, or the forced
\* total 0) of a roll of N dice gives max(N, 0) dice, each within 1..6,
\* with the modifier of the roll and the total the sum of the dice plus the
\* modifier; bob's character, whose force is 3, rolling Basic then Force
\* gets 3 dice, the modifier 0 and no rerolls.
C24_UnforcedResolution ==
    (last.kind = "resolve" /\ ~Truthy(last.call.force_result)) =>
        /\ Len(result.dice) = IF roll.num_dice > 0 THEN roll.num_dice ELSE 0
        /\ \A i \in 1..Len(result.dice) : result.dice[i] \in 1..6
        /\ result.modifier = roll.modifier
        /\ total(result) = SumSeq(result.dice) + roll.modifier
        /\ (/\ Len(folded) = 2
            /\ folded[1].prism_cmd = PrismName.Basic
            /\ folded[2].prism_cmd = PrismName.Force
            /\ folded[2].before = NewRoll
            /\ roll.num_dice = 3) =>
               /\ Len(result.dice) = 3
               /\ result.modifier = 0
               /\ result.rerolls = 0

\* C24 witness: Basic then Force was rolled with a force of 3 and resolved
\* without a forced total into the dice 1, 6 and 3.
C24_Witness ==
    /\ last.kind = "resolve" /\ last.call.force_result = NoneV
    /\ Len(folded) = 2
    /\ folded[1].prism_cmd = PrismName.Basic
    /\ folded[2].prism_cmd = PrismName.Force
    /\ roll.num_dice = 3
    /\ result.dice = <<1, 6, 3>>

\* C25 as stated: once a Weighter prism with the weights (0,0,0,0,0,1) has
\* been applied in a roll, every die of every resolution of that roll is a
\* 6, a forced resolution included.
C25_WeightedDiceAlwaysSix ==
    (/\ last.kind = "resolve"
     /\ \E i \in 1..Len(folded) : folded[i].prism.kind = "weighter"
     /\ roll.weights = <<0, 0, 0, 0, 0, 1>>) =>
        \A i \in 1..Len(result.dice) : result.dice[i] = 6

\* C25: once a Weighter prism with the weights (0,0,0,0,0,1) has been
\* applied in a roll, every die of every resolution of that roll that is
\* not forced (no forced total, or the forced total 0) is a 6.
C25_WeightedDiceSixUnlessForced ==
    (/\ last.kind = "resolve" /\ ~Truthy(last.call.force_result)
     /\ \E i \in 1..Len(folded) : folded[i].prism.kind = "weighter"
     /\ roll.weights = <<0, 0, 0, 0, 0, 1>>) =>
        \A i \in 1..Len(result.dice) : result.dice[i] = 6

\* C25 witness: alice rolled W6 then Ad, and the 2 dice of the resolution,
\* which was not forced, are both 6.
C25_Witness ==
    /\ last.kind = "resolve" /\ last.call.force_result = NoneV
    /\ Len(folded) = 2
    /\ folded[1].prism.kind = "weighter" /\ folded[2].prism.kind = "adder"
    /\ roll.weights = <<0, 0, 0, 0, 0, 1>>
    /\ result.dice = <<6, 6>>

----------------------------------------------------------------------------
(* Properties of the enabled flags *)

\* C26 as stated: the plugins having been constructed for an active
\* roleplay, every command is enabled exactly when its name is in the
\* roleplay's allow-list.
C26_EnabledIffAllowed ==
    roleplay.active =>
        \A name \in AllCommands : enabled[name] <=> name \in roleplay.commands

\* C26: the plugins having been constructed for an active roleplay, every
\* command but start is enabled exactly when its name is in the roleplay's
\* allow-list, start is disabled whether the list names it or not, and no
\* message changes a flag afterwards.
C26_EnabledIffAllowedButStart ==
    [][/\ roleplay.active =>
             /\ \A name \in AllCommands \ {START_CMD} :
                    enabled[name] <=> name \in roleplay.commands
             /\ ~enabled[START_CMD]
       /\ enabled' = enabled]_vars

\* C26 witness: in an active roleplay whose allow-list names lock and
\* start but not fate, the owner's !lock x reached its handler, and lock is
\* enabled while fate and start are not.
C26_Witness ==
    /\ roleplay.active
    /\ LOCK_CMD \in roleplay.commands /\ START_CMD \in roleplay.commands
    /\ FATE_CMD \notin roleplay.commands
    /\ last.kind = "message" /\ last.command = LOCK_CMD
    /\ last.handler = "lock"
    /\ enabled[LOCK_CMD] /\ ~enabled[FATE_CMD] /\ ~enabled[START_CMD]

----------------------------------------------------------------------------
(* Properties of the forced resolution *)

\* C27: resolution terminates and the forced path ends in one of three
\* ways.  Every roll and every forced total have a resolution; each turn of
\* the nudge loop brings the sum of the dice one closer to the target, so
\* the loop ends; and the dice of a forced resolution either sum to the
\* target, or sum to more with every die at 1, or sum to less with every
\* die at 6, the result's total being that sum plus the modifier whether
\* or not it is the forced total.
C27_ForcedResolutionEnds ==
    LET Dist(a, b) == IF a >= b THEN a - b ELSE b - a
    IN /\ \A force_result \in ForceResults : resolve(roll, force_result) # {}
       /\ (last.kind = "resolve" /\ Truthy(last.call.force_result)) =>
             LET target == last.call.force_result.n - roll.modifier
                 dice == result.dice
                 sum == SumSeq(dice)
             IN /\ \/ sum = target
                   \/ sum > target /\ \A i \in 1..Len(dice) : dice[i] = 1
                   \/ sum < target /\ \A i \in 1..Len(dice) : dice[i] = 6
                /\ total(result) = sum + roll.modifier
                /\ \A rolls \in DiceOver(Len(dice), 1..6) :
                       \A nudged \in Nudge(rolls, target) :
                           Dist(SumSeq(nudged), target) =
                               Dist(SumSeq(rolls), target) - 1

\* C27 witness: a roll of 2 dice and modifier 1 was resolved with the forced
\* total 1: the target is 0, one die is left and it stands at 1, above the
\* target, and the total reported is 2.
C27_Witness ==
    /\ last.kind = "resolve" /\ last.call.force_result = IntV(1)
    /\ roll.num_dice = 2 /\ roll.modifier = 1
    /\ result.dice = <<1>>
    /\ total(result) = 2

\* C28: when the forced total is not 0 and the target (the forced total
\* minus the modifier) is at least 1, the result has n dice with
\* 1 <= n <= target <= 6 * n, whatever the die count of the roll was, and
\* its total is the forced total; so the total of a resolution with a
\* forced total differs from it only when the target is 0 or less or the
\* forced total is 0.
C28_ForcedTotalExact ==
    (last.kind = "resolve" /\ last.call.force_result.t = "int") =>
        LET forcedTotal == last.call.force_result.n
            target == forcedTotal - roll.modifier
            n == Len(result.dice)
        IN /\ (forcedTotal # 0 /\ target >= 1) =>
                  /\ 1 <= n /\ n <= target /\ target <= 6 * n
                  /\ total(result) = forcedTotal
           /\ total(result) # forcedTotal => (target <= 0 \/ forcedTotal = 0)

\* C28 witness: a roll of -1 dice and modifier -1 was resolved with the
\* forced total 7: the target is 8, two dice were made up, 2 and 6, and the
\* total is 7.
C28_Witness ==
    /\ last.kind = "resolve" /\ last.call.force_result = IntV(7)
    /\ roll.num_dice = 0 - 1 /\ roll.modifier = 0 - 1
    /\ result.dice = <<2, 6>>
    /\ total(result) = 7

----------------------------------------------------------------------------
(* Properties of the tokenizer, continued *)

\* C29: for a command whose last parameter collects, run called with any
\* text of spaces, quotes and other characters either collects the tokens
\* of the text or fails with the CommandException of the tokenizer and
\* with nothing else, a text that ends with spaces included.  For the sole
\* parameter and a text without quotes the tokens are the runs of
\* characters other than the space: as many values as there are runs, none
\* empty or holding a space, and together the text without its spaces.
C29_CollectTokenizesOrParseError ==
    (last.kind = "run" /\ last.cmd_params[Len(last.cmd_params)].collect) =>
        LET text == last.params.s
            tok == Tokenize(last.cmd_params, last.params)
            RECURSIVE Flat(_)
            Flat(q) == IF q = <<>> THEN <<>> ELSE Head(q) \o Flat(Tail(q))
            NotSpace(c) == c # " "
        IN /\ tok.exc \in {"none", "CommandException"}
           /\ last.handler = "" => last.exc = "CommandException"
           /\ (/\ tok.exc = "none" /\ Len(last.cmd_params) = 1
               /\ \A i \in 1..Len(text) : text[i] # "\"") =>
                  /\ Len(tok.param_values) =
                         Cardinality({i \in 1..Len(text) :
                             /\ text[i] # " "
                             /\ i = 1 \/ text[i - 1] = " "})
                  /\ \A i \in 1..Len(tok.param_values) :
                         /\ tok.param_values[i] # <<>>
                         /\ \A j \in 1..Len(tok.param_values[i]) :
                                tok.param_values[i][j] # " "
                  /\ Flat(tok.param_values) = SelectSeq(text, NotSpace)

----------------------------------------------------------------------------
(* Properties of the authorization check *)

\* C30: a message naming a registered command whose room gate passes is
\* refused as not authorised exactly when the command requires an admin and
\* the caller is none, or requires a player and the caller is neither a
\* player nor an admin.  So the guild owner, an admin without the player
\* role, is never refused a command that only requires a player, and
\* alice, who holds the player role only, is always refused a command that
\* requires an admin.
C30_AuthorisedExactlyWhen ==
    \A c \in AllCommands :
        (Invokes(c) /\ RoomGatePasses(CommandSpec(c), last.channel)) =>
            LET spec == CommandSpec(c)
                passes ==
                    /\ ~spec.requires_admin \/ is_admin(last.author)
                    /\ \/ ~spec.requires_player
                       \/ is_player(last.author)
                       \/ is_admin(last.author)
                refused ==
                    /\ last.exc = "CommandException"
                    /\ last.error_text = Text("not_authorised", c, NoneV)
                    /\ last.handler = ""
            IN /\ passes <=> ~refused
               /\ (/\ last.author = GuildOwner /\ ~is_player(GuildOwner)
                   /\ spec.requires_player /\ ~spec.requires_admin) =>
                      ~refused
               /\ (/\ last.author = "alice" /\ ~is_admin("alice")
                   /\ spec.requires_admin) => refused

\* C30 witness: the guild owner, who holds no role, sent !charcreate abc,
\* which requires a player, and the handler was called.
C30_Witness ==
    /\ Invokes(CHARACTERS_CREATE_CMD)
    /\ CommandSpec(CHARACTERS_CREATE_CMD).requires_player
    /\ last.author = GuildOwner /\ ~is_player(GuildOwner)
    /\ last.handler = "character_create"
    /\ last.args = <<StrV(<<"a", "b", "c">>)>>

====
